---- MODULE Spec2Model ----
(***************************************************************************)
(* Risk & What-If simulation engine of bursaminddemo.                      *)
(*                                                                         *)
(*   app/services/traffic_whatif_service.py   TrafficWhatIfService         *)
(*   app/api/v1/endpoints/traffic_risk.py     POST/GET /what-if            *)
(*   app/api/v1/endpoints/traffic_density.py  GET /forecast                *)
(*   scripts/load_traffic_data.py             loaders of the two tables    *)
(*                                                                         *)
(* Encodings.                                                              *)
(*   segment ids   "NSB_%03d" % i is the integer i (1..49); the integer 0  *)
(*                 is a segment id outside the NSB family.                 *)
(*   densities     risk_score / density d is the integer 10*d (tenths).    *)
(*   severities    weather_severity s is the integer 10*s (tenths).        *)
(*   timestamps    whole hours since an epoch at midnight; hour-of-day is  *)
(*                 ts % 24.                                                *)
(*   real values   an impact x is the record [n, d, h] that stands for     *)
(*                 x = n / (d * h^1.5), kept exact; int(x) is VTrunc.      *)
(*   exceptions    a call returns [ok |-> TRUE, val |-> v] or              *)
(*                 [ok |-> FALSE, err |-> name].                           *)
(***************************************************************************)
EXTENDS Integers, Sequences, FiniteSets, TLC

VARIABLES
    segment_risks,     \* table segment_risks: set of SegmentRisk rows
    traffic_forecasts, \* table traffic_forecasts: set of TrafficForecast rows
    whatif_scenarios,  \* table whatif_scenarios: sequence of stored WhatIfScenario rows
    now,               \* datetime.utcnow(), in hours
    hash_seed,         \* the process's string-hash seed (PYTHONHASHSEED), fixes set order
    sort_tie,          \* how this build's unstable sort orders equal keys
    service,           \* a long-lived TrafficWhatIfService instance
    threads,           \* the position of each thread running a scenario on it
    last               \* the last call and what it returned

vars ==
    <<segment_risks, traffic_forecasts, whatif_scenarios, now, hash_seed, sort_tie,
      service, threads, last>>

(***************************************************************************)
(* Bounds of the model.                                                    *)
(***************************************************************************)
MaxSnapshots == 3
MaxTicks == 1

(***************************************************************************)
(* Program constants.                                                      *)
(***************************************************************************)
NumNSB == 49
DefaultMaxHops == 5
LookbackHours == 24
UnreachableHops == 10
DefaultDensity == 5
IndirectCap == 50
DirectCap == 100
PipeBurstCap == 100
AccidentCap == 50
EventCap == 80
WeatherCap == 60
EventAttendanceSaturation == 5000
DefaultEventAttendance == 1000
DefaultWeatherSeverity == 5
DefaultLaneClosed == 1
DefaultDurationHours == 6
PipeBurstLanes == 3
AccidentLanes == 1
PipeBurstExtraHops == 2
EventExtraHops == 3
WeatherExtraHops == 5

(***************************************************************************)
(* Inputs.                                                                 *)
(***************************************************************************)
StartHour == 2 * 24 + 2
Seeds == {0, 1}
Targets == {0, 1, 3}
SnapSegments == {3}
SnapTimes == {StartHour - 24, StartHour - 23, StartHour}
\* the timestamps of a series file: the above and one an hour ahead of the clock
LoadTimes == SnapTimes \cup {StartHour + 1}
Scores == {-5, 2, 6, 15}
\* items of a series file: risk_score and traffic_density, in tenths
SeriesItems ==
    {[risk_score |-> -5, traffic_density |-> 12], [risk_score |-> 2, traffic_density |-> 6],
     [risk_score |-> 6, traffic_density |-> 6], [risk_score |-> 15, traffic_density |-> -2]}
\* the items loaded at a timestamp: one item for the hour ahead of the clock
LoadItems(ts) ==
    IF ts \in SnapTimes THEN SeriesItems ELSE {x \in SeriesItems : x.risk_score > 10}
Lanes == {-1, 0, 1, 3}
Durations == {0, 4, 24}
HopChoices == {0, 2, DefaultMaxHops}
Attendances == {-2000, DefaultEventAttendance, 20000}
Severities == {-5, DefaultWeatherSeverity, 20}
ScenarioNames == {"road_work", "pipe_burst", "accident", "event", "weather"}

(***************************************************************************)
(* Exceptions and exact values.                                            *)
(***************************************************************************)
Ok(v) == [ok |-> TRUE, val |-> v]
Raise(e) == [ok |-> FALSE, err |-> e]

Abs(x) == IF x < 0 THEN -x ELSE x
Cube(h) == h * h * h
Val(n, d, h) == [n |-> n, d |-> d, h |-> h]
VInt(k) == Val(k, 1, 1)

\* x*x*p <= y*y*q for x, y >= 0 and p, q >= 1, by quotients where one side is a cube
SqLeq(x, p, y, q) ==
    IF p = q THEN x <= y
    ELSE IF q = 1 THEN (IF x = 0 THEN TRUE ELSE p <= (y * y) \div (x * x))
    ELSE IF p = 1 THEN (IF y = 0 THEN x = 0 ELSE (x * x + y * y - 1) \div (y * y) <= q)
    ELSE x * x * p <= y * y * q

\* a <= b for a = a.n/(a.d*a.h^1.5), b likewise (d > 0, h >= 1): compared by squares
VLeq(a, b) ==
    LET A == IF a.d = b.d THEN a.n ELSE a.n * b.d
        B == IF a.d = b.d THEN b.n ELSE b.n * a.d
    IN  IF a.h = b.h THEN A <= B
        ELSE IF A <= 0 /\ B >= 0 THEN TRUE
        ELSE IF A >= 0 /\ B <= 0 THEN FALSE
        ELSE IF A > 0 THEN SqLeq(A, Cube(b.h), B, Cube(a.h))
        ELSE SqLeq(-B, Cube(a.h), -A, Cube(b.h))
VMin(a, b) == IF VLeq(a, b) THEN a ELSE b
VMax(a, b) == IF VLeq(a, b) THEN b ELSE a
VScale(a, p, q) == Val(a.n * p, a.d * q, a.h)

\* Python int(x): truncation toward zero
VTrunc(a) ==
    LET m == Abs(a.n)
        ks == {k \in 0..(m \div a.d) : k * k <= (m * m) \div (a.d * a.d * Cube(a.h))}
        k == CHOOSE x \in ks : \A y \in ks : y <= x
    IN  IF a.n < 0 THEN -k ELSE k

(***************************************************************************)
(* Segment graph: segment_neighbors is a dict segment id -> list of ids.   *)
(***************************************************************************)
NSB == 1..NumNSB
EmptyDict == [k \in {} |-> <<>>]

\* only the next segment appended
DefaultNeighborsForward(i) == IF i < NumNSB THEN <<i + 1>> ELSE <<>>

DefaultNeighbors(i) ==
    (IF i > 1 THEN <<i - 1>> ELSE <<>>) \o (IF i < NumNSB THEN <<i + 1>> ELSE <<>>)

\* for i in range(1, 50): self.segment_neighbors[seg_id] = neighbors
_init_default_neighbors(sn) ==
    [k \in (DOMAIN sn) \cup NSB |-> IF k \in NSB THEN DefaultNeighbors(k) ELSE sn[k]]

build_spatial_neighbors(sn) ==
    [k \in (DOMAIN sn) \cup NSB |-> IF k \in NSB THEN DefaultNeighbors(k) ELSE sn[k]]

\* self.segment_neighbors.get(seg, [])
DictGet(sn, seg) == IF seg \in DOMAIN sn THEN sn[seg] ELSE <<>>

RECURSIVE BfsVisitUnchecked(_, _, _, _, _)
\* the inner loop without its `not in affected` test
BfsVisitUnchecked(affected, queue, enqueued, nbrs, hops) ==
    IF nbrs = <<>> THEN [affected |-> affected, queue |-> queue, enqueued |-> enqueued]
    ELSE BfsVisitUnchecked(affected \cup {Head(nbrs)},
                           Append(queue, <<Head(nbrs), hops + 1>>),
                           Append(enqueued, Head(nbrs)), Tail(nbrs), hops)

RECURSIVE BfsVisit(_, _, _, _, _)
\* for neighbor in neighbors: if neighbor not in affected: add, enqueue;
\* enqueued lists every segment appended to the queue
BfsVisit(affected, queue, enqueued, nbrs, hops) ==
    IF nbrs = <<>> THEN [affected |-> affected, queue |-> queue, enqueued |-> enqueued]
    ELSE IF Head(nbrs) \notin affected
         THEN BfsVisit(affected \cup {Head(nbrs)},
                       Append(queue, <<Head(nbrs), hops + 1>>),
                       Append(enqueued, Head(nbrs)), Tail(nbrs), hops)
         ELSE BfsVisit(affected, queue, enqueued, Tail(nbrs), hops)

RECURSIVE BfsLoopInclusive(_, _, _, _, _, _)
\* the loop with `hops > max_hops` in place of `hops >= max_hops`
BfsLoopInclusive(sn, affected, queue, enqueued, pops, max_hops) ==
    IF queue = <<>> THEN [affected |-> affected, enqueued |-> enqueued, pops |-> pops]
    ELSE LET cur == Head(queue)
         IN  IF cur[2] > max_hops
             THEN BfsLoopInclusive(sn, affected, Tail(queue), enqueued, pops + 1, max_hops)
             ELSE LET r == BfsVisit(affected, Tail(queue), enqueued,
                                    DictGet(sn, cur[1]), cur[2])
                  IN  BfsLoopInclusive(sn, r.affected, r.queue, r.enqueued, pops + 1,
                                       max_hops)

RECURSIVE BfsLoop(_, _, _, _, _, _)
\* while queue: pop(0); if hops >= max_hops: continue; visit the neighbors;
\* pops counts the iterations of the loop
BfsLoop(sn, affected, queue, enqueued, pops, max_hops) ==
    IF queue = <<>> THEN [affected |-> affected, enqueued |-> enqueued, pops |-> pops]
    ELSE LET cur == Head(queue)
         IN  IF cur[2] >= max_hops
             THEN BfsLoop(sn, affected, Tail(queue), enqueued, pops + 1, max_hops)
             ELSE LET r == BfsVisit(affected, Tail(queue), enqueued,
                                    DictGet(sn, cur[1]), cur[2])
                  IN  BfsLoop(sn, r.affected, r.queue, r.enqueued, pops + 1, max_hops)

\* the loop of _find_affected_segments from its first statement to its end
BfsRun(sn, segment_id, max_hops) ==
    BfsLoop(sn, {segment_id}, <<<<segment_id, 0>>>>, <<segment_id>>, 0, max_hops)

\* the loop started from an empty set, and the loop run one hop further
AffectedSetUnseeded(sn, segment_id, max_hops) ==
    BfsLoop(sn, {}, <<<<segment_id, 0>>>>, <<segment_id>>, 0, max_hops).affected
AffectedSetOneHopMore(sn, segment_id, max_hops) ==
    BfsRun(sn, segment_id, max_hops + 1).affected

\* the set `affected` when the loop of _find_affected_segments ends
AffectedSet(sn, segment_id, max_hops) == BfsRun(sn, segment_id, max_hops).affected

RECURSIVE SortedSeq(_, _)
\* the elements of S in ascending (up) or descending order
SortedSeq(S, up) ==
    IF S = {} THEN <<>>
    ELSE LET x == CHOOSE e \in S : \A y \in S : IF up THEN e <= y ELSE e >= y
         IN  <<x>> \o SortedSeq(S \ {x}, up)

\* list(a_set_of_str): the iteration order of a set of strings is fixed by the
\* process's hash seed; two seeds stand for two processes
ListOfSet(S, seed) == SortedSeq(S, seed % 2 = 0)

_find_affected_segments(sn, segment_id, max_hops, seed) ==
    ListOfSet(AffectedSet(sn, segment_id, max_hops), seed)

RECURSIVE HopEnqueue(_, _, _, _)
\* for neighbor in neighbors: if neighbor not in visited: enqueue
HopEnqueue(queue, nbrs, visited, hops) ==
    IF nbrs = <<>> THEN queue
    ELSE HopEnqueue(IF Head(nbrs) \notin visited
                    THEN Append(queue, <<Head(nbrs), hops + 1>>) ELSE queue,
                    Tail(nbrs), visited, hops)

RECURSIVE HopLoop(_, _, _, _, _)
\* while queue: pop(0); return hops at seg2; skip a visited segment; enqueue
\* the neighbours not yet visited; pops counts the iterations of the loop
HopLoop(sn, queue, visited, pops, seg2) ==
    IF queue = <<>> THEN [hops |-> UnreachableHops, pops |-> pops]
    ELSE LET cur == Head(queue)
         IN  IF cur[1] = seg2 THEN [hops |-> cur[2], pops |-> pops + 1]
             ELSE IF cur[1] \in visited
             THEN HopLoop(sn, Tail(queue), visited, pops + 1, seg2)
             ELSE HopLoop(sn,
                          HopEnqueue(Tail(queue), DictGet(sn, cur[1]),
                                     visited \cup {cur[1]}, cur[2]),
                          visited \cup {cur[1]}, pops + 1, seg2)

\* the call with the number of loop iterations it took
HopRun(sn, seg1, seg2) ==
    IF seg1 = seg2 THEN [hops |-> 0, pops |-> 0]
    ELSE HopLoop(sn, <<<<seg1, 0>>>>, {}, 0, seg2)

_get_hop_distance(sn, seg1, seg2) == HopRun(sn, seg1, seg2).hops

(***************************************************************************)
(* Generic helpers over sequences.                                         *)
(***************************************************************************)
RECURSIVE SelectRows(_, _)
\* df[df["segment_id"] == segment_id], order kept
SelectRows(df, segment_id) ==
    IF df = <<>> THEN <<>>
    ELSE (IF Head(df).segment_id = segment_id THEN <<Head(df)>> ELSE <<>>)
         \o SelectRows(Tail(df), segment_id)

RECURSIVE SumScores(_)
SumScores(rows) ==
    IF rows = <<>> THEN 0 ELSE Head(rows).risk_score + SumScores(Tail(rows))

RowSet(rows) == {rows[i] : i \in DOMAIN rows}

RECURSIVE RowsByTime(_)
\* the rows of a set ordered by timestamp (the table holds one row per
\* segment and timestamp, so the order is total for one segment)
RowsByTime(S) ==
    IF S = {} THEN <<>>
    ELSE LET r == CHOOSE x \in S : \A y \in S :
                      x.timestamp < y.timestamp
                      \/ (x.timestamp = y.timestamp /\ x.segment_id <= y.segment_id)
         IN  <<r>> \o RowsByTime(S \ {r})

(***************************************************************************)
(* TrafficWhatIfService: construction.                                     *)
(***************************************************************************)
\* _load_traffic_model: the artifact is "ok" (file present and loadable),
\* "missing" (no file) or "broken" (import or load raises)
_load_traffic_model(self, artifact) ==
    IF artifact = "ok" THEN [self EXCEPT !.traffic_model = "TrafficDensityModel"]
    ELSE [self EXCEPT !.use_model = FALSE]

\* __init__: the attributes the constructor sets; multipliers in tenths
TrafficWhatIfService(use_model, artifact) ==
    LET self == [segment_neighbors |-> EmptyDict,
                 traffic_model |-> "None",
                 use_model |-> use_model,
                 scenario_impact_multipliers |->
                     [pipe_burst |-> [urgency_bonus |-> 15],
                      accident |-> [duration_multiplier |-> 5],
                      weather |-> [capacity_reduction |-> 2]],
                 diversion_factor |-> 4]
    IN  IF use_model THEN _load_traffic_model(self, artifact) ELSE self

\* hasattr(self, name)
HasAttr(self, name) == name \in DOMAIN self

(***************************************************************************)
(* Impact formulas.                                                        *)
(***************************************************************************)
_get_current_density(df, segment_id) ==
    LET seg_data == SelectRows(df, segment_id)
    IN  IF seg_data = <<>> THEN DefaultDensity
        ELSE LET latest == CHOOSE r \in RowSet(seg_data) :
                               \A q \in RowSet(seg_data) : q.timestamp <= r.timestamp
             IN  latest.risk_score

\* capacity_reduction = lane_closed * self.lane_capacity_reduction: the
\* attribute lookup raises AttributeError when __init__ never set it
_calculate_direct_impact(self, current_density, lane_closed) ==
    IF ~HasAttr(self, "lane_capacity_reduction") THEN Raise("AttributeError")
    ELSE Ok(VMin(VInt(DirectCap),
                 Val(lane_closed * self.lane_capacity_reduction * current_density, 1, 1)))

\* the diversion rate multiplied by the hop count instead of divided by hops**1.5
IndirectImpactGrowing(self, affected_seg, closed_seg, closed_density, lane_closed) ==
    LET hops == _get_hop_distance(self.segment_neighbors, closed_seg, affected_seg)
    IN  IF hops = 0 THEN Ok(VInt(0))
        ELSE Ok(VMin(VInt(IndirectCap),
                     Val(closed_density * self.diversion_factor * lane_closed * hops, 5, 1)))

\* the indirect impact returned without its min(50, impact)
IndirectImpactUncapped(self, affected_seg, closed_seg, closed_density, lane_closed) ==
    LET hops == _get_hop_distance(self.segment_neighbors, closed_seg, affected_seg)
    IN  IF hops = 0 THEN Ok(VInt(0))
        ELSE Ok(Val(closed_density * self.diversion_factor * lane_closed, 5, hops))

\* impact = closed_density * (diversion_factor / hops**1.5) * lane_closed * 20
_calculate_indirect_impact(self, affected_seg, closed_seg, closed_density, lane_closed) ==
    LET hops == _get_hop_distance(self.segment_neighbors, closed_seg, affected_seg)
    IN  IF hops = 0 THEN Ok(VInt(0))
        ELSE Ok(VMin(VInt(IndirectCap),
                     Val(closed_density * self.diversion_factor * lane_closed, 5, hops)))

(***************************************************************************)
(* Best time window.                                                       *)
(***************************************************************************)
HHMM(h, m) == <<h, m>>

HourOf(ts) == ts % 24

\* best_end = (best_start + duration_hours) % 24
BestEndUnwrapped(best_start, duration_hours) == best_start + duration_hours
BestEnd(best_start, duration_hours) == (best_start + duration_hours) % 24

\* hourly_avg.sort_values().index[0]: an hour whose mean risk_score is lowest;
\* among equal means the unstable sort of the build decides
_find_best_time_window(df, segment_id, duration_hours, tie) ==
    LET seg_data == SelectRows(df, segment_id)
        rowsOf(h) == SelectSeq(seg_data, LAMBDA r : HourOf(r.timestamp) = h)
        hours == {HourOf(r.timestamp) : r \in RowSet(seg_data)}
        \* mean(a) <= mean(b), by cross-multiplication
        meanLeq(a, b) == SumScores(rowsOf(a)) * Len(rowsOf(b))
                             <= SumScores(rowsOf(b)) * Len(rowsOf(a))
        lowest == {h \in hours : \A g \in hours : meanLeq(h, g)}
        best_start == CHOOSE h \in lowest :
                          \A g \in lowest : IF tie = "first" THEN h <= g ELSE h >= g
        best_end == BestEnd(best_start, duration_hours)
    IN  IF seg_data = <<>> THEN [start |-> HHMM(1, 0), end |-> HHMM(7, 0)]
        ELSE [start |-> HHMM(best_start, 0), end |-> HHMM(best_end, 0)]

(***************************************************************************)
(* Scenario runs.  Each returns [self, out]: the service instance after    *)
(* the call and Ok(result) or Raise(error).                                *)
(***************************************************************************)
Entry(seg, pct) == [segment_id |-> seg, delay_increase_pct |-> pct]

\* for affected_seg in affected_segments: ...append(...): the first exception
\* in list order ends the loop and the call
ImpactLoop(list, res) ==
    LET bad == {i \in DOMAIN list : ~res[i].ok}
    IN  IF bad # {}
        THEN Raise(res[CHOOSE i \in bad : \A j \in bad : i <= j].err)
        ELSE Ok([i \in DOMAIN list |-> Entry(list[i], res[i].val)])

\* if not self.segment_neighbors: self._init_default_neighbors()
EnsureNeighbors(self) ==
    IF DOMAIN self.segment_neighbors = {}
    THEN [self EXCEPT !.segment_neighbors = _init_default_neighbors(@)]
    ELSE self

MaxPct(entries) ==
    IF entries = <<>> THEN 0
    ELSE LET S == {entries[i].delay_increase_pct : i \in DOMAIN entries}
         IN  CHOOSE m \in S : \A x \in S : x <= m

\* min(cap, x) then int()
CappedPct(cap, x) == VTrunc(VMin(VInt(cap), x))

\* int(min(100, max(0, delay_increase)))
ClampedPct(x) == VTrunc(VMin(VInt(DirectCap), VMax(VInt(0), x)))

\* the formula for one segment: direct at the target, indirect elsewhere
FormulaImpact(self, seg, closed, density, lanes) ==
    IF seg = closed THEN _calculate_direct_impact(self, density, lanes)
    ELSE _calculate_indirect_impact(self, seg, closed, density, lanes)

\* before/after prediction delta: predict() returns whole DataFrames (with the
\* segment_id strings and the categorical signal_id), and their difference raises
ModelPredictionDelta == Raise("TypeError")

\* scenario_density - current_density of a neighbour, times 100 * 1.5:
\* min(1.0, current + base * diversion_factor / (hops + 1) * 0.3) - current
NeighbourDensityDelay(self, hops, current_density, base_density) ==
    VMin(VInt((10 - current_density) * 15),
         Val(base_density * self.diversion_factor * 9, 20 * (hops + 1), 1))

\* one iteration of the loop of _calculate_impact_with_model, before the clamp
ModelImpact(self, df, seg, closed, lanes, base_density) ==
    LET seg_data == SelectRows(df, seg)
        current_density == seg_data[Len(seg_data)].risk_score
        hops == _get_hop_distance(self.segment_neighbors, closed, seg)
        simple == Ok(NeighbourDensityDelay(self, hops, current_density, base_density))
        predicted == IF Len(seg_data) < 2 \/ self.traffic_model = "None"
                     THEN simple
                     ELSE IF ModelPredictionDelta.ok THEN ModelPredictionDelta
                     ELSE simple
    IN  IF seg_data = <<>> THEN FormulaImpact(self, seg, closed, base_density, lanes)
        ELSE IF seg = closed
             \* lane_closed * self.lane_capacity_reduction raises in the try;
             \* the handler computes the formula value
             THEN IF ~HasAttr(self, "lane_capacity_reduction")
                  THEN FormulaImpact(self, seg, closed, base_density, lanes)
                  ELSE LET den == 10 - lanes * self.lane_capacity_reduction
                       IN  IF den = 0
                           THEN FormulaImpact(self, seg, closed, base_density, lanes)
                           ELSE Ok(VMin(VInt((10 - current_density) * 15),
                                        IF den > 0
                                        THEN Val(current_density * (10 - den) * 15, den, 1)
                                        ELSE Val(-current_density * (10 - den) * 15, -den, 1)))
        ELSE predicted

_calculate_impact_with_model(self, df, affected, closed, lanes, base_density) ==
    LET raw == [i \in DOMAIN affected |->
                    ModelImpact(self, df, affected[i], closed, lanes, base_density)]
    IN  ImpactLoop(affected,
                   [i \in DOMAIN affected |->
                        IF raw[i].ok THEN Ok(ClampedPct(raw[i].val)) ELSE raw[i]])

_generate_summary(self, segment_id, lane_closed, duration_hours, entries, window) ==
    <<segment_id, lane_closed, duration_hours, window.start, window.end, Len(entries),
      MaxPct(entries),
      IF self.use_model /\ self.traffic_model # "None"
      THEN "model tabanli" ELSE "algoritma tabanli">>

_run_road_work_scenario(self0, df, segment_id, lane_closed, duration_hours, max_hops, seed, tie) ==
    LET self == EnsureNeighbors(self0)
        affected == _find_affected_segments(self.segment_neighbors, segment_id,
                                            max_hops, seed)
        current_density == _get_current_density(df, segment_id)
        impact == IF self.use_model /\ self.traffic_model # "None"
                  THEN _calculate_impact_with_model(self, df, affected, segment_id,
                                                    lane_closed, current_density)
                  ELSE LET raw == [i \in DOMAIN affected |->
                                       FormulaImpact(self, affected[i], segment_id,
                                                     current_density, lane_closed)]
                       IN  ImpactLoop(affected,
                               [i \in DOMAIN affected |->
                                    IF raw[i].ok THEN Ok(VTrunc(raw[i].val)) ELSE raw[i]])
        window == _find_best_time_window(df, segment_id, duration_hours, tie)
    IN  [self |-> self,
         affected |-> affected,
         out |-> IF ~impact.ok THEN impact
                 ELSE Ok([scenario |-> "road_work",
                          segment_id |-> segment_id,
                          impact |-> [lane_closed |-> lane_closed,
                                      duration_hours |-> duration_hours],
                          affected_segments |-> impact.val,
                          best_time_window |-> window,
                          summary |-> _generate_summary(self, segment_id, lane_closed,
                                                        duration_hours, impact.val,
                                                        window)])]

what_if_road_work(self, df, segment_id, lane_closed, duration_hours, max_hops, seed, tie) ==
    _run_road_work_scenario(self, df, segment_id, lane_closed, duration_hours, max_hops,
                            seed, tie)

\* one iteration of the loop of the pipe burst scenario:
\* int(min(100, impact(lane_closed=3) * urgency_bonus))
PipeBurstDelay(self, affected_seg, segment_id, current_density) ==
    LET raw == FormulaImpact(self, affected_seg, segment_id, current_density,
                             PipeBurstLanes)
        bonus == self.scenario_impact_multipliers.pipe_burst.urgency_bonus
    IN  IF raw.ok THEN Ok(CappedPct(PipeBurstCap, VScale(raw.val, bonus, 10))) ELSE raw

\* one iteration of the loop of the accident scenario:
\* int(min(50, impact(lane_closed=1) * duration_multiplier))
AccidentDelay(self, affected_seg, segment_id, current_density) ==
    LET raw == FormulaImpact(self, affected_seg, segment_id, current_density,
                             AccidentLanes)
        mult == self.scenario_impact_multipliers.accident.duration_multiplier
    IN  IF raw.ok THEN Ok(CappedPct(AccidentCap, VScale(raw.val, mult, 10))) ELSE raw

_run_pipe_burst_scenario(self0, df, segment_id, duration_hours, max_hops, seed, tie) ==
    LET self == EnsureNeighbors(self0)
        affected == _find_affected_segments(self.segment_neighbors, segment_id,
                                            max_hops + PipeBurstExtraHops, seed)
        current_density == _get_current_density(df, segment_id)
        impact == ImpactLoop(affected,
                      [i \in DOMAIN affected |->
                           PipeBurstDelay(self, affected[i], segment_id, current_density)])
        window == _find_best_time_window(df, segment_id, duration_hours, tie)
    IN  [self |-> self,
         affected |-> affected,
         out |-> IF ~impact.ok THEN impact
                 ELSE Ok([scenario |-> "pipe_burst",
                          segment_id |-> segment_id,
                          impact |-> [duration_hours |-> duration_hours,
                                      urgency |-> "high"],
                          affected_segments |-> impact.val,
                          best_time_window |-> window,
                          summary |-> <<segment_id, duration_hours, Len(impact.val),
                                        window.start, window.end>>])]

\* an accident reaching one hop further than asked instead of one hop less
AccidentReachWider(max_hops) == max_hops + 1

\* max_hops=max_hops - 1: an accident is kept more local
AccidentReach(max_hops) == max_hops - 1

_run_accident_scenario(self0, df, segment_id, duration_hours, max_hops, seed, tie) ==
    LET self == EnsureNeighbors(self0)
        affected == _find_affected_segments(self.segment_neighbors, segment_id,
                                            AccidentReach(max_hops), seed)
        current_density == _get_current_density(df, segment_id)
        impact == ImpactLoop(affected,
                      [i \in DOMAIN affected |->
                           AccidentDelay(self, affected[i], segment_id, current_density)])
        window == [start |-> HHMM(0, 0), end |-> HHMM(23, 59)]
    IN  [self |-> self,
         affected |-> affected,
         out |-> IF ~impact.ok THEN impact
                 ELSE Ok([scenario |-> "accident",
                          segment_id |-> segment_id,
                          impact |-> [duration_hours |-> duration_hours,
                                      urgency |-> "high"],
                          affected_segments |-> impact.val,
                          best_time_window |-> window,
                          summary |-> <<segment_id, duration_hours, Len(impact.val),
                                        MaxPct(impact.val)>>])]

\* traffic_increase_base * (1 / (hops + 1)) * 100 with
\* traffic_increase_base = min(0.5, event_attendance / 10000)
EventIncrease(event_attendance, hops) ==
    Val(IF event_attendance <= EventAttendanceSaturation
        THEN event_attendance ELSE EventAttendanceSaturation,
        100 * (hops + 1), 1)

_run_event_scenario(self0, df, segment_id, event_attendance, duration_hours, max_hops, seed, tie) ==
    LET self == EnsureNeighbors(self0)
        affected == _find_affected_segments(self.segment_neighbors, segment_id,
                                            max_hops + EventExtraHops, seed)
        current_density == _get_current_density(df, segment_id)
        entries == [i \in DOMAIN affected |->
                        Entry(affected[i],
                              CappedPct(EventCap,
                                  EventIncrease(event_attendance,
                                      _get_hop_distance(self.segment_neighbors,
                                                        segment_id, affected[i]))))]
        window == _find_best_time_window(df, segment_id, duration_hours, tie)
    IN  [self |-> self,
         affected |-> affected,
         out |-> Ok([scenario |-> "event",
                     segment_id |-> segment_id,
                     impact |-> [event_attendance |-> event_attendance,
                                 duration_hours |-> duration_hours],
                     affected_segments |-> entries,
                     best_time_window |-> window,
                     summary |-> <<segment_id, event_attendance, duration_hours,
                                   Len(entries), window.start, window.end>>])]

\* capacity_reduction * weather_severity * current_density * 100
WeatherDelay(self, weather_severity, current_density) ==
    Val(self.scenario_impact_multipliers.weather.capacity_reduction
            * weather_severity * current_density, 10, 1)

_run_weather_scenario(self0, df, segment_id, weather_severity, duration_hours, max_hops, seed) ==
    LET self == EnsureNeighbors(self0)
        affected == _find_affected_segments(self.segment_neighbors, segment_id,
                                            max_hops + WeatherExtraHops, seed)
        current_density == _get_current_density(df, segment_id)
        entries == [i \in DOMAIN affected |->
                        Entry(affected[i],
                              CappedPct(WeatherCap,
                                  WeatherDelay(self, weather_severity, current_density)))]
        window == [start |-> HHMM(0, 0), end |-> HHMM(23, 59)]
    IN  [self |-> self,
         affected |-> affected,
         out |-> Ok([scenario |-> "weather",
                     segment_id |-> segment_id,
                     impact |-> [weather_severity |-> weather_severity,
                                 duration_hours |-> duration_hours],
                     affected_segments |-> entries,
                     best_time_window |-> window,
                     summary |-> <<IF weather_severity < 3 THEN "hafif"
                                   ELSE IF weather_severity < 7 THEN "orta"
                                   ELSE "siddetli",
                                   duration_hours, Len(entries)>>])]

\* run_scenario: ScenarioType(scenario_type) raises ValueError for an unknown
\* name; nothing else about the arguments is checked
run_scenario(self, req, df, seed, tie) ==
    IF req.scenario_type \notin ScenarioNames
    THEN [self |-> self, affected |-> <<>>, out |-> Raise("ValueError")]
    ELSE IF req.scenario_type = "road_work"
    THEN _run_road_work_scenario(self, df, req.segment_id, req.lane_closed,
                                 req.duration_hours, req.max_hops, seed, tie)
    ELSE IF req.scenario_type = "pipe_burst"
    THEN _run_pipe_burst_scenario(self, df, req.segment_id, req.duration_hours,
                                  req.max_hops, seed, tie)
    ELSE IF req.scenario_type = "accident"
    THEN _run_accident_scenario(self, df, req.segment_id, req.duration_hours,
                                req.max_hops, seed, tie)
    ELSE IF req.scenario_type = "event"
    THEN _run_event_scenario(self, df, req.segment_id, req.event_attendance,
                             req.duration_hours, req.max_hops, seed, tie)
    ELSE _run_weather_scenario(self, df, req.segment_id, req.weather_severity,
                               req.duration_hours, req.max_hops, seed)

(***************************************************************************)
(* Requests and data frames.                                               *)
(***************************************************************************)
Artifacts == {"ok", "missing", "broken"}

\* WhatIfRequest(segment_id, lane_closed, duration_hours): typed fields, no validators
WhatIfRequests ==
    [segment_id : Targets, lane_closed : Lanes, duration_hours : Durations]

Req(t, s, l, d, h, a, w) ==
    [scenario_type |-> t, segment_id |-> s, lane_closed |-> l, duration_hours |-> d,
     max_hops |-> h, event_attendance |-> a, weather_severity |-> w]

\* the arguments of run_scenario; an argument a scenario does not read keeps its default
ScenarioRequests ==
    {Req("road_work", s, l, DefaultDurationHours, DefaultMaxHops,
         DefaultEventAttendance, DefaultWeatherSeverity) : s \in Targets, l \in Lanes}
    \cup {Req(t, s, DefaultLaneClosed, DefaultDurationHours, h,
              DefaultEventAttendance, DefaultWeatherSeverity) :
              t \in {"pipe_burst", "accident"}, s \in Targets, h \in {0, DefaultMaxHops}}
    \cup {Req("event", s, DefaultLaneClosed, DefaultDurationHours, h, a,
              DefaultWeatherSeverity) :
              s \in Targets, h \in HopChoices, a \in Attendances}
    \cup {Req("event", s, DefaultLaneClosed, d, DefaultMaxHops,
              DefaultEventAttendance, DefaultWeatherSeverity) :
              s \in Targets, d \in Durations}
    \cup {Req("weather", s, DefaultLaneClosed, DefaultDurationHours, h,
              DefaultEventAttendance, w) :
              s \in Targets, h \in {0, DefaultMaxHops}, w \in Severities}
    \cup {Req("flood", 3, DefaultLaneClosed, DefaultDurationHours, DefaultMaxHops,
              DefaultEventAttendance, DefaultWeatherSeverity)}

Row(seg, ts, score) == [segment_id |-> seg, timestamp |-> ts, risk_score |-> score]

\* the tables the loader can build: at most one row per segment and timestamp
Tables ==
    {T \in SUBSET {Row(seg, ts, score) :
                       seg \in SnapSegments, ts \in SnapTimes, score \in Scores} :
        /\ Cardinality(T) <= MaxSnapshots
        /\ \A a, b \in T : (a.segment_id = b.segment_id /\ a.timestamp = b.timestamp)
                               => a = b}

\* every table as a frame ordered by timestamp
TableFrames == {RowsByTime(T) : T \in Tables}

\* the frames handed to run_scenario: no rows, one row, a trough at hour 3, two
\* hours with equal means, and a latest score below 0 and above 1
ScenarioFrames ==
    {<<>>,
     <<Row(3, StartHour - 24, 2)>>,
     <<Row(3, StartHour - 24, 6), Row(3, StartHour - 23, 2), Row(3, StartHour, 6)>>,
     <<Row(3, StartHour - 24, 2), Row(3, StartHour - 23, 2)>>,
     <<Row(3, StartHour - 24, 15), Row(3, StartHour - 23, -5)>>,
     <<Row(3, StartHour - 24, -5), Row(3, StartHour - 23, 15)>>}

Idle == [op |-> "idle"]

(***************************************************************************)
(* The database and the clock.                                             *)
(***************************************************************************)
\* the comparisons strict
RiskLevelStrict(risk_score) ==
    IF risk_score > 7 THEN "high"
    ELSE IF risk_score > 4 THEN "medium"
    ELSE "low"

\* calculate_risk_level, scores in tenths
calculate_risk_level(risk_score) ==
    IF risk_score >= 7 THEN "high"
    ELSE IF risk_score >= 4 THEN "medium"
    ELSE "low"

\* SegmentRisk(...): expected_2h takes the item's traffic_density
SegmentRisk(seg, ts, item) ==
    [segment_id |-> seg, timestamp |-> ts,
     risk_score |-> item.risk_score,
     risk_level |-> calculate_risk_level(item.risk_score),
     current_density |-> item.traffic_density,
     expected_2h |-> item.traffic_density]

\* load_segment_series_from_json: one item of a series becomes one row, with
\* risk_score, traffic_density and time as the file gives them
LoadSegmentRisk(seg, ts, item) ==
    /\ last = Idle
    /\ Cardinality(segment_risks) < MaxSnapshots
    /\ \A r \in segment_risks : ~(r.segment_id = seg /\ r.timestamp = ts)
    /\ segment_risks' = segment_risks \cup {SegmentRisk(seg, ts, item)}
    /\ UNCHANGED <<threads, traffic_forecasts, whatif_scenarios, now, hash_seed, sort_tie,
                   service, last>>

Tick ==
    /\ last = Idle
    /\ now < StartHour + 24 * MaxTicks
    /\ now' = now + 24
    /\ UNCHANGED <<threads, traffic_forecasts, segment_risks, whatif_scenarios, hash_seed,
                   sort_tie, service, last>>

\* the caller reads what the last call returned
Return ==
    /\ last # Idle
    /\ last' = Idle
    /\ UNCHANGED <<threads, traffic_forecasts, segment_risks, whatif_scenarios, now,
                   hash_seed, sort_tie, service>>

(***************************************************************************)
(* Forecast samples and GET /forecast.                                     *)
(***************************************************************************)
MaxForecasts == 2
None == 0 - 1
HoursPerWeek == 7 * 24

ForecastSignals == {0, 1}
ForecastTimes ==
    {StartHour, StartHour - 2, StartHour - 30, StartHour - HoursPerWeek + 10}
ForecastValues ==
    {[traffic_density |-> 2, expected_2h |-> 6],
     [traffic_density |-> 15, expected_2h |-> -5]}
\* items whose risk_score lies below, on and above the level boundaries
LevelItems ==
    {[risk_score |-> x, traffic_density |-> 5] : x \in {-5, 0, 3, 4, 6, 7, 10, 15}}

\* TrafficForecast(...): segment_id=None, the CSV has none
TrafficForecast(signal, ts, v) ==
    [signal_id |-> signal, segment_id |-> None, timestamp |-> ts,
     traffic_density |-> v.traffic_density, expected_2h |-> v.expected_2h]

\* load_signal_forecasts_from_csv: one CSV row becomes one table row, with
\* traffic_density and expected_2h as the file gives them
LoadSignalForecast(signal, ts, v) ==
    /\ last = Idle
    /\ Cardinality(traffic_forecasts) < MaxForecasts
    /\ \A f \in traffic_forecasts : ~(f.signal_id = signal /\ f.timestamp = ts)
    /\ traffic_forecasts' = traffic_forecasts \cup {TrafficForecast(signal, ts, v)}
    /\ UNCHANGED <<threads, segment_risks, whatif_scenarios, now, hash_seed,
                   sort_tie, service, last>>

\* `if segment_id:` and `if signal_id:`: None and 0 are false
Truthy(x) == x # None /\ x # 0

RECURSIVE NewestFirst(_, _)
\* order_by(desc(timestamp)); rows with equal timestamps in the order the
\* database picks (tie)
NewestFirst(S, tie) ==
    IF S = {} THEN <<>>
    ELSE LET f == CHOOSE x \in S : \A y \in S :
                      \/ x.timestamp > y.timestamp
                      \/ /\ x.timestamp = y.timestamp
                         /\ IF tie = "first" THEN x.signal_id <= y.signal_id
                            ELSE x.signal_id >= y.signal_id
         IN  <<f>> \o NewestFirst(S \ {f}, tie)

\* select(TrafficForecast).where(timestamp >= cutoff) with the optional filters
ForecastQuery(table, segment_id, signal_id, cutoff_time, tie) ==
    NewestFirst({f \in table :
                     /\ f.timestamp >= cutoff_time
                     /\ Truthy(segment_id) => f.segment_id = segment_id
                     /\ Truthy(signal_id) => f.signal_id = signal_id}, tie)

\* the requested window only
ForecastNotWidened(table, segment_id, signal_id, hours, at, tie) ==
    ForecastQuery(table, segment_id, signal_id, at - hours, tie)

get_traffic_forecast(table, segment_id, signal_id, hours, at, tie) ==
    LET forecasts == ForecastQuery(table, segment_id, signal_id, at - hours, tie)
    IN  IF forecasts = <<>>
        THEN ForecastQuery(table, segment_id, signal_id, at - HoursPerWeek, tie)
        ELSE forecasts

GetTrafficForecast(segment_id, signal_id, hours, tie) ==
    /\ last = Idle
    /\ last' = [op |-> "get_forecast", segment_id |-> segment_id,
                signal_id |-> signal_id, hours |-> hours, at |-> now,
                out |-> get_traffic_forecast(traffic_forecasts, segment_id, signal_id,
                                             hours, now, tie)]
    /\ UNCHANGED <<threads, traffic_forecasts, segment_risks, whatif_scenarios, now,
                   hash_seed, sort_tie, service>>

(***************************************************************************)
(* POST /what-if.                                                          *)
(***************************************************************************)
\* select(SegmentRisk).where(segment_id == s, timestamp >= cutoff).order_by(timestamp)
\* the query without its timestamp >= cutoff_time condition
RecentRisksNoCutoff(table, seg, at) == RowsByTime({r \in table : r.segment_id = seg})

RecentRisks(table, seg, at) ==
    RowsByTime({r \in table : r.segment_id = seg /\ r.timestamp >= at - LookbackHours})

\* the emptiness check left out
NoRisksUnchecked(risks) == FALSE

\* if not risks: raise HTTPException(404)
NoRisks(risks) == risks = <<>>

\* the response and the rows of whatif_scenarios after create_whatif_scenario
\* df = pd.DataFrame of segment_id, timestamp and risk_score of each row
DataFrameOf(risks) ==
    [i \in DOMAIN risks |->
         Row(risks[i].segment_id, risks[i].timestamp, risks[i].risk_score)]

create_whatif_scenario(table, stored, request, at, artifact, seed, tie) ==
    LET risks == RecentRisks(table, request.segment_id, at)
        df == DataFrameOf(risks)
        whatif_service == TrafficWhatIfService(TRUE, artifact)
        run == what_if_road_work(whatif_service, df, request.segment_id,
                                 request.lane_closed, request.duration_hours,
                                 DefaultMaxHops, seed, tie)
    IN  IF NoRisks(risks)
        THEN [status |-> 404, body |-> "not found", df |-> <<>>, stored |-> stored]
        ELSE IF ~run.out.ok
        THEN [status |-> 500, body |-> run.out.err, df |-> df, stored |-> stored]
        ELSE [status |-> 200, body |-> run.out.val, df |-> df,
              stored |-> Append(stored,
                  [scenario_type |-> "road_work",
                   segment_id |-> request.segment_id,
                   lane_closed |-> request.lane_closed,
                   duration_hours |-> request.duration_hours,
                   affected_segments |-> run.out.val.affected_segments,
                   best_time_window |-> run.out.val.best_time_window,
                   summary |-> run.out.val.summary])]

CreateWhatIf(request, artifact) ==
    /\ last = Idle
    /\ \E r \in {create_whatif_scenario(segment_risks, whatif_scenarios, request, now,
                                        artifact, hash_seed, sort_tie)} :
           /\ whatif_scenarios' = r.stored
           /\ last' = [op |-> "create_whatif", request |-> request,
                       history |-> {x \in segment_risks :
                                        x.segment_id = request.segment_id},
                       stored_before |-> whatif_scenarios,
                       df |-> r.df, status |-> r.status, body |-> r.body]
    /\ UNCHANGED <<threads, traffic_forecasts, segment_risks, now, hash_seed, sort_tie, service>>

(***************************************************************************)
(* GET /what-if.                                                           *)
(***************************************************************************)
ListLimit == 50

RECURSIVE Reversed(_)
Reversed(q) == IF q = <<>> THEN <<>> ELSE Reversed(Tail(q)) \o <<Head(q)>>

\* select(WhatIfScenario).order_by(desc(created_at)), the optional segment
\* filter, limit(50); each row mapped to a WhatIfResponse
list_whatif_scenarios(stored, segment_id) ==
    LET newest == Reversed(stored)
        rows == IF Truthy(segment_id)
                THEN SelectSeq(newest, LAMBDA w : w.segment_id = segment_id)
                ELSE newest
        scenarios == SubSeq(rows, 1, IF Len(rows) < ListLimit THEN Len(rows) ELSE ListLimit)
    IN  [i \in DOMAIN scenarios |->
             [scenario |-> scenarios[i].scenario_type,
              segment_id |-> scenarios[i].segment_id,
              impact |-> [lane_closed |-> scenarios[i].lane_closed,
                          duration_hours |-> scenarios[i].duration_hours],
              affected_segments |-> scenarios[i].affected_segments,
              best_time_window |-> scenarios[i].best_time_window,
              summary |-> scenarios[i].summary]]

ListWhatIf(segment_id) ==
    /\ last = Idle
    /\ last' = [op |-> "list_whatif", segment_id |-> segment_id,
                stored_before |-> whatif_scenarios,
                out |-> list_whatif_scenarios(whatif_scenarios, segment_id)]
    /\ UNCHANGED <<threads, traffic_forecasts, segment_risks, whatif_scenarios, now,
                   hash_seed, sort_tie, service>>

(***************************************************************************)
(* The service called directly.                                            *)
(***************************************************************************)
\* a new process: a new hash seed and a new service instance
Restart(seed, use_model, artifact) ==
    /\ last = Idle
    /\ hash_seed' = seed
    /\ service' = TrafficWhatIfService(use_model, artifact)
    /\ UNCHANGED <<threads, traffic_forecasts, segment_risks, whatif_scenarios, now,
                   sort_tie, last>>

\* service.build_spatial_neighbors(segments_gdf)
BuildSpatialNeighbors ==
    /\ last = Idle
    /\ service' = [service EXCEPT !.segment_neighbors = build_spatial_neighbors(@)]
    /\ UNCHANGED <<threads, traffic_forecasts, segment_risks, whatif_scenarios, now,
                   hash_seed, sort_tie, last>>

RunScenario(req, df) ==
    /\ last = Idle
    /\ \E r \in {run_scenario(service, req, df, hash_seed, sort_tie)} :
           /\ service' = r.self
           /\ last' = [op |-> "run_scenario", request |-> req, df |-> df,
                       neighbors |-> r.self.segment_neighbors,
                       affected |-> r.affected, out |-> r.out]
    /\ UNCHANGED <<threads, traffic_forecasts, segment_risks, whatif_scenarios, now,
                   hash_seed, sort_tie>>

(***************************************************************************)
(* The service's helpers called on their own.                              *)
(***************************************************************************)
FnSegments == {0, 2, 3, 4, 5, 13}
FnHops == {-1, 0, 1, DefaultMaxHops, DefaultMaxHops + WeatherExtraHops}
FnDurations == {1, 4, 23, 24}

\* the direct impact for two pairs of arguments
CallDirectImpact(density, lanes, density2, lanes2) ==
    /\ last = Idle
    /\ last' = [op |-> "direct_impact", density |-> density, lanes |-> lanes,
                density2 |-> density2, lanes2 |-> lanes2,
                out |-> _calculate_direct_impact(service, density, lanes),
                out2 |-> _calculate_direct_impact(service, density2, lanes2)]
    /\ UNCHANGED <<threads, traffic_forecasts, segment_risks, whatif_scenarios, now,
                   hash_seed, sort_tie, service>>

\* the indirect impact of two segments for one closed segment
CallIndirectImpact(closed, seg1, seg2, density, lanes) ==
    /\ last = Idle
    /\ last' = [op |-> "indirect_impact", closed |-> closed,
                density |-> density, lanes |-> lanes,
                hops1 |-> _get_hop_distance(service.segment_neighbors, closed, seg1),
                hops2 |-> _get_hop_distance(service.segment_neighbors, closed, seg2),
                out1 |-> _calculate_indirect_impact(service, seg1, closed, density, lanes),
                out2 |-> _calculate_indirect_impact(service, seg2, closed, density, lanes)]
    /\ UNCHANGED <<threads, traffic_forecasts, segment_risks, whatif_scenarios, now,
                   hash_seed, sort_tie, service>>

\* _find_affected_segments in this process, and again in a process with another seed
\* snapshot rows in any order: up to three snapshots of two segments at two
\* hours, no two of the same segment and hour
DensitySegments == {3, 4}
DensitySnapshots ==
    {SegmentRisk(seg, ts, item) :
         seg \in DensitySegments, ts \in {StartHour - 1, StartHour},
         item \in {x \in SeriesItems : x.risk_score > 0}}
SnapshotLists ==
    {l \in UNION {[1 .. n -> DensitySnapshots] : n \in 0 .. MaxSnapshots} :
        \A i, j \in DOMAIN l :
            (l[i].segment_id = l[j].segment_id /\ l[i].timestamp = l[j].timestamp)
                => i = j}

\* _get_current_density(df, segment_id) on the frame create_whatif_scenario
\* builds from the snapshot rows
CallCurrentDensity(risks, segment_id) ==
    /\ last = Idle
    /\ last' = [op |-> "current_density", risks |-> risks, segment_id |-> segment_id,
                out |-> _get_current_density(DataFrameOf(risks), segment_id)]
    /\ UNCHANGED <<threads, traffic_forecasts, segment_risks, whatif_scenarios, now,
                   hash_seed, sort_tie, service>>

\* adjacency maps self.segment_neighbors can hold: a triangle, a self-loop, a
\* directed cycle, repeated edges with a neighbour that is no key, and a map
\* with an unreachable part
Graphs ==
    { (1 :> <<2, 3>>) @@ (2 :> <<1, 3>>) @@ (3 :> <<1, 2>>),
      (1 :> <<1, 2>>) @@ (2 :> <<2>>),
      (1 :> <<2>>) @@ (2 :> <<3>>) @@ (3 :> <<1>>),
      (1 :> <<2, 2, 4>>) @@ (2 :> <<1, 1>>),
      (1 :> <<2>>) @@ (2 :> <<1>>) @@ (3 :> <<>>) }
GraphSegments == 1 .. 4
\* second arguments of _get_hop_distance: the above, an id no map holds, and
\* segments far down the default chain
GraphTargets == (0 .. 4) \cup {3 + UnreachableHops, 2 * UnreachableHops}
GraphHops == {0, 1, 2, DefaultMaxHops}

\* _find_affected_segments(seg1, max_hops) and _get_hop_distance(seg1, seg2) of a
\* service whose segment_neighbors is sn
CallGraphSearch(sn, seg1, seg2, max_hops) ==
    /\ last = Idle
    /\ last' = [op |-> "graph_search", neighbors |-> sn, seg1 |-> seg1,
                seg2 |-> seg2, max_hops |-> max_hops,
                bfs |-> BfsRun(sn, seg1, max_hops),
                hop |-> HopRun(sn, seg1, seg2)]
    /\ UNCHANGED <<threads, traffic_forecasts, segment_risks, whatif_scenarios, now,
                   hash_seed, sort_tie, service>>

\* recent_data = seg_data.tail(24)
FeatureRows == 24

TailRows(rows, n) == IF Len(rows) <= n THEN rows ELSE SubSeq(rows, Len(rows) - n + 1, Len(rows))

\* recent_data with traffic_density = density, vehicle_count = density * 100
\* and the dummy signal_id 1; densities in tenths, vehicle counts in units
FeatureFrame(recent_data, density) ==
    [i \in DOMAIN recent_data |->
         [timestamp |-> recent_data[i].timestamp, traffic_density |-> density,
          vehicle_count |-> density * 10, signal_id |-> 1]]

\* None for fewer than two rows, else the before and after frames
_prepare_model_features(seg_data, current_density, scenario_density) ==
    IF Len(seg_data) < 2 THEN [ok |-> FALSE, before |-> <<>>, after |-> <<>>]
    ELSE [ok |-> TRUE,
          before |-> FeatureFrame(TailRows(seg_data, FeatureRows), current_density),
          after |-> FeatureFrame(TailRows(seg_data, FeatureRows), scenario_density)]

RECURSIVE Gcd(_, _)
Gcd(a, b) == IF b = 0 THEN a ELSE Gcd(b, a % b)

\* (vehicle_count / max_per_signal).clip(0, 1).fillna(0), max 0 replaced by NaN;
\* the value as a reduced fraction
DensityRatio(v, m) ==
    IF m = 0 \/ v = 0 \/ (v < 0) # (m < 0) THEN <<0, 1>>
    ELSE IF Abs(v) >= Abs(m) THEN <<1, 1>>
    ELSE <<Abs(v) \div Gcd(Abs(m), Abs(v)), Abs(m) \div Gcd(Abs(m), Abs(v))>>

RECURSIVE FramesByTime(_)
\* sort_values(["signal_id", "timestamp"]) of a frame of one signal
FramesByTime(rows) ==
    IF rows = <<>> THEN <<>>
    ELSE LET i == CHOOSE k \in DOMAIN rows :
                      /\ \A j \in DOMAIN rows : rows[k].timestamp <= rows[j].timestamp
                      /\ \A j \in 1 .. k - 1 : rows[j].timestamp # rows[k].timestamp
         IN  <<rows[i]>> \o FramesByTime(SubSeq(rows, 1, i - 1)
                                         \o SubSeq(rows, i + 1, Len(rows)))

\* TrafficDensityModel.create_features: traffic_density is computed anew from
\* vehicle_count, the lags from it, the hour from the timestamp
create_features(df0) ==
    LET df == FramesByTime(df0)
        counts == {df[i].vehicle_count : i \in DOMAIN df}
        max_per_signal == CHOOSE m \in counts : \A v \in counts : v <= m
        density == [i \in DOMAIN df |-> DensityRatio(df[i].vehicle_count, max_per_signal)]
    IN  [i \in DOMAIN df |->
             [traffic_density |-> density[i],
              lag_1 |-> IF i > 1 THEN density[i - 1] ELSE density[i],
              hour |-> HourOf(df[i].timestamp),
              signal_id |-> df[i].signal_id]]

FeatureDensities == {-5, 0, 2, 6, 10}

\* _prepare_model_features and the feature rows predict() hands to the model
\* for the before and the after frame
CallPrepareModelFeatures(df, current_density, scenario_density) ==
    /\ last = Idle
    /\ \E r \in {_prepare_model_features(SelectRows(df, 3), current_density,
                                         scenario_density)} :
           last' = [op |-> "prepare_features", seg_data |-> SelectRows(df, 3),
                    current_density |-> current_density,
                    scenario_density |-> scenario_density,
                    out |-> r,
                    before_features |-> create_features(r.before),
                    after_features |-> create_features(r.after)]
    /\ UNCHANGED <<threads, traffic_forecasts, segment_risks, whatif_scenarios, now,
                   hash_seed, sort_tie, service>>

\* HORIZON = 8: 15 minutes * 8 = 2 hours
HORIZON == 8

\* the timestamps of a signal in a training frame, and the frame's signals
TimesOf(traffic_full, sid) == {r.timestamp : r \in {x \in traffic_full : x.signal_id = sid}}
SignalsOf(traffic_full) == {r.signal_id : r \in traffic_full}

RECURSIVE Ascending(_)
\* sort_values("timestamp") of the timestamps of one signal
Ascending(S) ==
    IF S = {} THEN <<>>
    ELSE LET m == CHOOSE x \in S : \A y \in S : x <= y
         IN  <<m>> \o Ascending(S \ {m})

\* df after create_features, shift(-HORIZON) and dropna: the rows of a signal
\* that have a target, in time order, each with the time step its target is
\* read from
RowsWithTarget(traffic_full, sid) ==
    LET times == Ascending(TimesOf(traffic_full, sid))
    IN  [i \in 1 .. (IF Len(times) > HORIZON THEN Len(times) - HORIZON ELSE 0) |->
             [signal_id |-> sid, timestamp |-> times[i],
              target_from |-> times[i + HORIZON]]]

\* cut = int(len(d) * train_split), train_split in percent
TrainCut(n, train_split) == (n * train_split) \div 100

\* the per-signal split of TrafficDensityModel.train: tr and va
train(traffic_full, train_split) ==
    LET part(sid) ==
            LET d == RowsWithTarget(traffic_full, sid)
                cut == TrainCut(Len(d), train_split)
            IN  [tr |-> {d[i] : i \in 1 .. cut}, va |-> {d[i] : i \in cut + 1 .. Len(d)}]
    IN  [tr |-> UNION {part(sid).tr : sid \in SignalsOf(traffic_full)},
         va |-> UNION {part(sid).va : sid \in SignalsOf(traffic_full)}]

\* training frames: signal 1 with n1 steps one apart, signal 2 with n2 steps
\* two apart
SeriesLengths == {0, HORIZON, HORIZON + 1, 2 * HORIZON + 1, 2 * HORIZON + 4}
TrainingFrames ==
    {{[signal_id |-> 1, timestamp |-> t] : t \in 1 .. n1}
     \cup {[signal_id |-> 2, timestamp |-> 2 * t] : t \in 1 .. n2} :
         n1 \in SeriesLengths, n2 \in SeriesLengths}
TrainSplits == {0, 50, 80, 100}

CallTrain(traffic_full, train_split) ==
    /\ last = Idle
    /\ last' = [op |-> "train", traffic_full |-> traffic_full,
                train_split |-> train_split,
                out |-> train(traffic_full, train_split)]
    /\ UNCHANGED <<threads, traffic_forecasts, segment_risks, whatif_scenarios, now,
                   hash_seed, sort_tie, service>>

\* densities a scenario loop can meet: the snapshot scores, and a score far
\* above 1 that the loaders store as read
DelayDensities == Scores \cup {40}

\* one iteration of the pipe burst loop and of the accident loop for a segment
CallScenarioDelay(segment_id, affected_seg, current_density) ==
    /\ last = Idle
    /\ last' = [op |-> "scenario_delay", segment_id |-> segment_id,
                affected_seg |-> affected_seg, density |-> current_density,
                hops |-> _get_hop_distance(service.segment_neighbors, segment_id,
                                           affected_seg),
                pipe_burst |-> PipeBurstDelay(service, affected_seg, segment_id,
                                              current_density),
                accident |-> AccidentDelay(service, affected_seg, segment_id,
                                           current_density)]
    /\ UNCHANGED <<threads, traffic_forecasts, segment_risks, whatif_scenarios, now,
                   hash_seed, sort_tie, service>>

CallFindAffected(segment_id, max_hops, other_seed) ==
    /\ last = Idle
    /\ last' = [op |-> "find_affected", segment_id |-> segment_id,
                max_hops |-> max_hops,
                neighbors |-> service.segment_neighbors,
                first |-> _find_affected_segments(service.segment_neighbors, segment_id,
                                                  max_hops, hash_seed),
                second |-> _find_affected_segments(service.segment_neighbors, segment_id,
                                                   max_hops, other_seed)]
    /\ UNCHANGED <<threads, traffic_forecasts, segment_risks, whatif_scenarios, now,
                   hash_seed, sort_tie, service>>

CallBestTimeWindow(df, segment_id, duration_hours) ==
    /\ last = Idle
    /\ last' = [op |-> "best_time_window", df |-> df, segment_id |-> segment_id,
                duration_hours |-> duration_hours,
                out |-> _find_best_time_window(df, segment_id, duration_hours, sort_tie)]
    /\ UNCHANGED <<threads, traffic_forecasts, segment_risks, whatif_scenarios, now,
                   hash_seed, sort_tie, service>>

\* frames with rows of a neighbour of segment 3 as well
ModelFrames ==
    ScenarioFrames
    \cup {<<Row(2, StartHour - 24, 2), Row(2, StartHour - 23, 6)>>,
          <<Row(2, StartHour - 24, 6), Row(3, StartHour - 24, 2),
            Row(2, StartHour - 23, 15), Row(3, StartHour - 23, 6)>>}

AffectedLists == {<<>>, <<3>>, <<2, 4>>, <<2, 3, 4>>}

\* _calculate_impact_with_model for segment 3 closed
CallImpactWithModel(df, affected, lanes) ==
    /\ last = Idle
    /\ last' = [op |-> "impact_with_model", df |-> df, affected |-> affected,
                closed |-> 3, lanes |-> lanes,
                out |-> _calculate_impact_with_model(service, df, affected, 3, lanes,
                                                     _get_current_density(df, 3))]
    /\ UNCHANGED <<threads, traffic_forecasts, segment_risks, whatif_scenarios, now,
                   hash_seed, sort_tie, service>>

(***************************************************************************)
(* Specifications.                                                         *)
(***************************************************************************)
(***************************************************************************)
(* Two threads running scenarios on one service instance.  The code takes  *)
(* no lock; a step is one statement that reads or writes segment_neighbors.*)
(***************************************************************************)
Threads == {1, 2}
ThreadHops == {1, DefaultMaxHops}
IdleThread == [pc |-> "idle", segment_id |-> 0, max_hops |-> 0, i |-> 0,
               affected |-> {}, queue |-> <<>>]

\* a scenario is called: the thread stands before `if not self.segment_neighbors`
StartScenario(t, segment_id, max_hops) ==
    /\ last = Idle
    /\ threads[t].pc = "idle"
    /\ threads' = [threads EXCEPT ![t] = [IdleThread EXCEPT !.pc = "check",
                                              !.segment_id = segment_id,
                                              !.max_hops = max_hops]]
    /\ UNCHANGED <<traffic_forecasts, segment_risks, whatif_scenarios, now,
                   hash_seed, sort_tie, service, last>>

\* if not self.segment_neighbors: enter _init_default_neighbors, else go on to
\* _find_affected_segments: affected = {segment_id}; queue = [(segment_id, 0)]
CheckNeighbors(t) ==
    /\ threads[t].pc = "check"
    /\ threads' = [threads EXCEPT ![t] =
           IF DOMAIN service.segment_neighbors = {}
           THEN [threads[t] EXCEPT !.pc = "init", !.i = 1]
           ELSE [threads[t] EXCEPT !.pc = "bfs",
                                   !.affected = {threads[t].segment_id},
                                   !.queue = <<<<threads[t].segment_id, 0>>>>]]
    /\ UNCHANGED <<traffic_forecasts, segment_risks, whatif_scenarios, now,
                   hash_seed, sort_tie, service, last>>

\* one iteration of the loop of _init_default_neighbors:
\* self.segment_neighbors[seg_id] = neighbors
InitNeighborsStep(t) ==
    /\ threads[t].pc = "init"
    /\ service' = [service EXCEPT !.segment_neighbors =
           [k \in (DOMAIN service.segment_neighbors) \cup {threads[t].i} |->
                IF k = threads[t].i THEN DefaultNeighbors(k)
                ELSE service.segment_neighbors[k]]]
    /\ threads' = [threads EXCEPT ![t] =
           IF threads[t].i < NumNSB THEN [threads[t] EXCEPT !.i = threads[t].i + 1]
           ELSE [threads[t] EXCEPT !.pc = "bfs",
                                   !.affected = {threads[t].segment_id},
                                   !.queue = <<<<threads[t].segment_id, 0>>>>]]
    /\ UNCHANGED <<traffic_forecasts, segment_risks, whatif_scenarios, now,
                   hash_seed, sort_tie, last>>

\* build_spatial_neighbors is called
StartBuild(t) ==
    /\ last = Idle
    /\ threads[t].pc = "idle"
    /\ threads' = [threads EXCEPT ![t] = [IdleThread EXCEPT !.pc = "build", !.i = 1]]
    /\ UNCHANGED <<traffic_forecasts, segment_risks, whatif_scenarios, now,
                   hash_seed, sort_tie, service, last>>

\* one iteration of the loop of build_spatial_neighbors
BuildNeighborsStep(t) ==
    /\ threads[t].pc = "build"
    /\ service' = [service EXCEPT !.segment_neighbors =
           [k \in (DOMAIN service.segment_neighbors) \cup {threads[t].i} |->
                IF k = threads[t].i THEN DefaultNeighbors(k)
                ELSE service.segment_neighbors[k]]]
    /\ threads' = [threads EXCEPT ![t] =
           IF threads[t].i < NumNSB THEN [threads[t] EXCEPT !.i = threads[t].i + 1]
           ELSE [threads[t] EXCEPT !.pc = "done"]]
    /\ UNCHANGED <<traffic_forecasts, segment_risks, whatif_scenarios, now,
                   hash_seed, sort_tie, last>>

\* one iteration of the while loop of _find_affected_segments, reading
\* self.segment_neighbors.get(current_seg, []) as it is now
BfsStep(t) ==
    /\ threads[t].pc = "bfs"
    /\ threads' = [threads EXCEPT ![t] =
           LET th == threads[t]
           IN  IF th.queue = <<>> THEN [th EXCEPT !.pc = "done"]
               ELSE LET cur == Head(th.queue)
                        r == BfsVisit(th.affected, Tail(th.queue), <<>>,
                                      DictGet(service.segment_neighbors, cur[1]),
                                      cur[2])
                    IN  IF cur[2] >= th.max_hops
                        THEN [th EXCEPT !.queue = Tail(th.queue)]
                        ELSE [th EXCEPT !.affected = r.affected, !.queue = r.queue]]
    /\ UNCHANGED <<traffic_forecasts, segment_risks, whatif_scenarios, now,
                   hash_seed, sort_tie, service, last>>

\* the scenario returns
FinishScenario(t) ==
    /\ threads[t].pc = "done"
    /\ threads' = [threads EXCEPT ![t] = IdleThread]
    /\ UNCHANGED <<traffic_forecasts, segment_risks, whatif_scenarios, now,
                   hash_seed, sort_tie, service, last>>

Init ==
    /\ segment_risks = {}
    /\ traffic_forecasts = {}
    /\ whatif_scenarios = <<>>
    /\ now = StartHour
    /\ hash_seed \in Seeds
    /\ sort_tie \in {"first", "last"}
    /\ service = TrafficWhatIfService(TRUE, "missing")
    /\ threads = [t \in Threads |-> IdleThread]
    /\ last = Idle

\* the deployed system: the loader, the clock and the /what-if endpoint
Next ==
    \/ \E seg \in SnapSegments, ts \in LoadTimes :
           \E item \in LoadItems(ts) : LoadSegmentRisk(seg, ts, item)
    \/ Tick
    \/ \E request \in WhatIfRequests, artifact \in {"ok", "missing"} :
           CreateWhatIf(request, artifact)
    \/ \E segment_id \in {None, 3} : ListWhatIf(segment_id)
    \/ Return

Spec == Init /\ [][Next]_vars

\* the two loaders and the /forecast endpoint
NextData ==
    \/ \E item \in LevelItems : LoadSegmentRisk(3, StartHour, item)
    \/ \E signal \in ForecastSignals, ts \in ForecastTimes, v \in ForecastValues :
           LoadSignalForecast(signal, ts, v)
    \/ Tick
    \/ \E segment_id \in {None, 3}, signal_id \in {None, 0, 1}, hours \in {2, 24},
          tie \in {"first", "last"} :
           GetTrafficForecast(segment_id, signal_id, hours, tie)
    \/ Return

SpecData == Init /\ [][NextData]_vars

\* the scenario simulator driven through run_scenario
NextService ==
    \/ \E seed \in Seeds, use_model \in BOOLEAN, artifact \in Artifacts :
           Restart(seed, use_model, artifact)
    \/ BuildSpatialNeighbors
    \/ \E req \in ScenarioRequests, df \in ScenarioFrames : RunScenario(req, df)
    \/ Return

SpecService == Init /\ [][NextService]_vars

\* the helpers of the simulator, each called on its own
NextHelpers ==
    \/ \E seed \in Seeds, use_model \in BOOLEAN, artifact \in Artifacts :
           Restart(seed, use_model, artifact)
    \/ BuildSpatialNeighbors
    \/ \E density, density2 \in Scores, lanes, lanes2 \in Lanes :
           CallDirectImpact(density, lanes, density2, lanes2)
    \/ \E seg1, seg2 \in FnSegments, density \in Scores, lanes \in Lanes :
           CallIndirectImpact(3, seg1, seg2, density, lanes)
    \/ \E segment_id \in Targets, max_hops \in FnHops, other_seed \in Seeds :
           CallFindAffected(segment_id, max_hops, other_seed)
    \/ \E affected_seg \in FnSegments, current_density \in DelayDensities :
           CallScenarioDelay(3, affected_seg, current_density)
    \/ \E df \in TableFrames, duration_hours \in FnDurations :
           CallBestTimeWindow(df, 3, duration_hours)
    \/ \E df \in ModelFrames, affected \in AffectedLists, lanes \in Lanes :
           CallImpactWithModel(df, affected, lanes)
    \/ Return

SpecHelpers == Init /\ [][NextHelpers]_vars

\* the functions that read nothing but their arguments, called alone
NextFunctions ==
    \/ \E sn \in Graphs \cup {_init_default_neighbors(EmptyDict)},
          seg1 \in GraphSegments, seg2 \in GraphTargets, max_hops \in GraphHops :
           CallGraphSearch(sn, seg1, seg2, max_hops)
    \/ \E risks \in SnapshotLists, segment_id \in DensitySegments :
           CallCurrentDensity(risks, segment_id)
    \/ \E df \in ModelFrames, current_density, scenario_density \in FeatureDensities :
           CallPrepareModelFeatures(df, current_density, scenario_density)
    \/ \E traffic_full \in TrainingFrames, train_split \in TrainSplits :
           CallTrain(traffic_full, train_split)
    \/ Return

SpecFunctions == Init /\ [][NextFunctions]_vars

\* scenarios run by two threads on one service instance
NextThreads ==
    \/ \E t \in Threads, max_hops \in ThreadHops : StartScenario(t, 3, max_hops)
    \/ \E t \in Threads : CheckNeighbors(t)
    \/ \E t \in Threads : InitNeighborsStep(t)
    \/ \E t \in Threads : StartBuild(t)
    \/ \E t \in Threads : BuildNeighborsStep(t)
    \/ \E t \in Threads : BfsStep(t)
    \/ \E t \in Threads : FinishScenario(t)

SpecThreads == Init /\ [][NextThreads]_vars

(***************************************************************************)
(* Properties.                                                             *)
(***************************************************************************)
SegmentIds(entries) == {entries[i].segment_id : i \in DOMAIN entries}
Elements(list) == {list[i] : i \in DOMAIN list}

\* C1: a what-if request for a target segment that has no risk snapshots at
\* all is answered 404 Not Found: no scenario result is returned and the rows
\* of whatif_scenarios are the rows before the request.
C1_NoSnapshotsNotFound ==
    (last.op = "create_whatif" /\ last.history = {}) =>
        /\ last.status = 404
        /\ last.body = "not found"
        /\ whatif_scenarios = last.stored_before

C1_Witness ==
    /\ last.op = "create_whatif"
    /\ last.history = {}
    /\ segment_risks # {}
    /\ last.status = 404

Malformed(req) ==
    \/ req.duration_hours <= 0
    \/ req.lane_closed < 0
    \/ req.scenario_type \notin ScenarioNames

\* C2: a scenario request with malformed parameters (duration_hours <= 0, a
\* negative lane count or an unknown scenario type) is rejected with a
\* validation error before any impact is computed.
C2_MalformedRejected ==
    (last.op = "run_scenario" /\ Malformed(last.request)) =>
        /\ ~last.out.ok
        /\ last.out.err \in {"ValueError", "ValidationError"}
        /\ last.affected = <<>>

C2_Witness ==
    /\ last.op = "run_scenario"
    /\ last.request.scenario_type = "event"
    /\ last.request.duration_hours = 0
    /\ last.out.ok
    /\ last.out.val.best_time_window.start = last.out.val.best_time_window.end

\* C3: for every scenario type, target segment (a key of the adjacency map or
\* not) and max_hops, the affected segments the run computes include the
\* target, and a returned affected_segments has an entry for the target, at
\* hop distance 0 from it.
C3_TargetAmongAffected ==
    (last.op = "run_scenario" /\ last.request.scenario_type \in ScenarioNames) =>
        /\ last.request.segment_id \in Elements(last.affected)
        /\ last.out.ok =>
               \E i \in DOMAIN last.out.val.affected_segments :
                   /\ last.out.val.affected_segments[i].segment_id
                          = last.request.segment_id
                   /\ _get_hop_distance(last.neighbors, last.request.segment_id,
                          last.out.val.affected_segments[i].segment_id) = 0

C3_Witness ==
    /\ last.op = "run_scenario"
    /\ last.out.ok
    /\ last.request.segment_id \notin DOMAIN last.neighbors
    /\ last.request.max_hops = 0
    /\ SegmentIds(last.out.val.affected_segments) = {last.request.segment_id}

\* C4: every delay_increase_pct of every returned scenario result lies in
\* [0, 100], for every scenario type and every lane_closed, event_attendance,
\* weather_severity and baseline density, negative and oversized ones included.
C4_DelayPctWithinRange ==
    (last.op = "run_scenario" /\ last.out.ok) =>
        \A i \in DOMAIN last.out.val.affected_segments :
            last.out.val.affected_segments[i].delay_increase_pct \in 0..100

C4_Witness ==
    /\ last.op = "run_scenario"
    /\ last.out.ok
    /\ last.request.scenario_type = "weather"
    /\ _get_current_density(last.df, last.request.segment_id) < 0
    /\ \E i \in DOMAIN last.out.val.affected_segments :
           last.out.val.affected_segments[i].delay_increase_pct < 0

\* min(100, lanes * factor * d * 100) for a per-lane factor in tenths
DirectImpactFormula(density, lanes, factor) ==
    VMin(VInt(100), Val(lanes * factor * density, 1, 1))

\* C5: for densities d in [0, 1] and lanes_closed >= 0, _calculate_direct_impact
\* returns a value in [0, 100] equal to min(100, capacity_reduction * d * 100)
\* with capacity_reduction = lanes_closed * a per-lane factor, non-decreasing
\* in d and in lanes_closed.
C5_DirectImpactFormula ==
    (/\ last.op = "direct_impact"
     /\ last.density \in 0..10 /\ last.lanes >= 0
     /\ last.density2 \in 0..10 /\ last.lanes2 >= 0) =>
        /\ last.out.ok /\ last.out2.ok
        /\ VLeq(VInt(0), last.out.val) /\ VLeq(last.out.val, VInt(100))
        /\ \E factor \in 1..10 :
               /\ last.out.val = DirectImpactFormula(last.density, last.lanes, factor)
               /\ last.out2.val = DirectImpactFormula(last.density2, last.lanes2, factor)
        /\ (last.density <= last.density2 /\ last.lanes <= last.lanes2) =>
               VLeq(last.out.val, last.out2.val)

C5_Witness ==
    /\ last.op = "direct_impact"
    /\ last.density = 6 /\ last.lanes = 1
    /\ ~last.out.ok
    /\ last.out.err = "AttributeError"

C7_AffectedSegmentsAsSet ==
    (last.op = "find_affected") =>
        /\ (last.max_hops = 0) => (Elements(last.first) = {last.segment_id})
        /\ Elements(last.first) = Elements(last.second)
        /\ Len(last.first) = Cardinality(Elements(last.first))
        /\ Len(last.second) = Cardinality(Elements(last.second))

C7_Witness ==
    /\ last.op = "find_affected"
    /\ last.max_hops = 0
    /\ last.segment_id \in DOMAIN last.neighbors
    /\ last.neighbors[last.segment_id] # <<>>
    /\ last.first = <<last.segment_id>>

\* C8: running the same scenario again with the same scenario type, target,
\* parameters, adjacency and snapshot data returns the same affected_segments,
\* in the same order, and the same best_time_window.
C8_SameRunSameResult ==
    (last.op = "run_scenario" /\ last.out.ok) =>
        \A seed \in Seeds :
            LET again == run_scenario(service, last.request, last.df, seed, sort_tie).out
            IN  /\ again.ok
                /\ again.val.affected_segments = last.out.val.affected_segments
                /\ again.val.best_time_window = last.out.val.best_time_window

C8_Witness ==
    /\ last.op = "run_scenario"
    /\ last.out.ok
    /\ service.segment_neighbors = last.neighbors
    /\ \E seed \in Seeds :
           LET again == run_scenario(service, last.request, last.df, seed, sort_tie).out
           IN  /\ again.ok
               /\ again.val.affected_segments # last.out.val.affected_segments
               /\ Elements(again.val.affected_segments)
                      = Elements(last.out.val.affected_segments)

\* the snapshots of a segment taken at an hour of the day, and their sum
SnapshotsAtHour(df, segment_id, h) ==
    {r \in RowSet(df) : r.segment_id = segment_id /\ HourOf(r.timestamp) = h}

RECURSIVE RiskSum(_)
RiskSum(S) ==
    IF S = {} THEN 0
    ELSE LET r == CHOOSE x \in S : TRUE IN r.risk_score + RiskSum(S \ {r})

\* C9: when the target has snapshots, _find_best_time_window returns a window
\* that starts at an hour of the day whose mean risk over the target's
\* snapshots is lowest and ends at (start + duration_hours) mod 24, for every
\* duration_hours in 1..24.
C9_WindowAtLowestMeanHour ==
    (/\ last.op = "best_time_window"
     /\ last.duration_hours \in 1..24
     /\ \E r \in RowSet(last.df) : r.segment_id = last.segment_id) =>
        LET at(h) == SnapshotsAtHour(last.df, last.segment_id, h)
            hours == {h \in 0..23 : at(h) # {}}
            start == last.out.start
            end == last.out.end
        IN  /\ start[1] \in hours /\ start[2] = 0
            /\ \A g \in hours :
                   RiskSum(at(start[1])) * Cardinality(at(g))
                       <= RiskSum(at(g)) * Cardinality(at(start[1]))
            /\ end[1] \in 0..23 /\ end[2] = 0
            /\ end[1] = (start[1] + last.duration_hours) % 24
            /\ (end[1] - start[1]) % 24 = last.duration_hours % 24

C9_Witness ==
    /\ last.op = "best_time_window"
    /\ last.duration_hours = 23
    /\ Len(last.df) = 3
    /\ last.out.start = HHMM(3, 0)
    /\ last.out.end = HHMM(2, 0)
    /\ RiskSum(SnapshotsAtHour(last.df, last.segment_id, 2)) = 2 + 15

\* C10: a road_work scenario with lanes_closed >= 1 on a target with risk
\* history returns a non-empty affected_segments in which the target's
\* delay_increase_pct is strictly greater than that of every segment at hop
\* distance >= 2.
C10_RoadWorkTargetDominates ==
    (/\ last.op = "run_scenario"
     /\ last.request.scenario_type = "road_work"
     /\ last.request.lane_closed >= 1
     /\ SelectRows(last.df, last.request.segment_id) # <<>>) =>
        /\ last.out.ok
        /\ last.out.val.affected_segments # <<>>
        /\ \A i, j \in DOMAIN last.out.val.affected_segments :
               LET a == last.out.val.affected_segments[i]
                   b == last.out.val.affected_segments[j]
               IN  (/\ a.segment_id = last.request.segment_id
                    /\ _get_hop_distance(last.neighbors, last.request.segment_id,
                                         b.segment_id) >= 2)
                       => a.delay_increase_pct > b.delay_increase_pct

C10_Witness ==
    /\ last.op = "run_scenario"
    /\ last.request.scenario_type = "road_work"
    /\ last.request.lane_closed = 1
    /\ SelectRows(last.df, last.request.segment_id) # <<>>
    /\ ~last.out.ok
    /\ last.out.err = "AttributeError"

\* C11: _calculate_impact_with_model never raises to the caller: with a model
\* error, a missing model or fewer than 2 rows of history it returns one entry
\* per affected segment.
C11_ModelPathNeverRaises ==
    (last.op = "impact_with_model") =>
        /\ last.out.ok
        /\ Len(last.out.val) = Len(last.affected)
        /\ \A i \in DOMAIN last.affected :
               last.out.val[i].segment_id = last.affected[i]

C11_Witness ==
    /\ last.op = "impact_with_model"
    /\ last.affected = <<2, 3, 4>>
    /\ last.lanes = 1
    /\ service.traffic_model # "None"
    /\ Len(SelectRows(last.df, 3)) >= 2
    /\ ~last.out.ok
    /\ last.out.err = "AttributeError"

InList(x, list) == \E i \in DOMAIN list : list[i] = x

\* C12: the adjacency the engine operates on is symmetric: after
\* _init_default_neighbors or build_spatial_neighbors, B is in
\* segment_neighbors[A] if and only if A is in segment_neighbors[B], and no
\* segment is its own neighbour.
C12_AdjacencySymmetric ==
    LET sn == service.segment_neighbors
    IN  \A A \in DOMAIN sn :
            /\ ~InList(A, sn[A])
            /\ \A i \in DOMAIN sn[A] :
                   /\ sn[A][i] \in DOMAIN sn
                   /\ InList(A, sn[sn[A][i]])

C12_Witness ==
    /\ last.op = "run_scenario"
    /\ DOMAIN service.segment_neighbors = NSB
    /\ service.segment_neighbors[1] = <<2>>
    /\ service.segment_neighbors[2] = <<1, 3>>
    /\ service.segment_neighbors[NumNSB] = <<NumNSB - 1>>

UnitRange == 0..10

\* C13: every stored risk snapshot and forecast sample has its risk_score,
\* current density and expected 2-hour density in [0, 1], whatever the raw
\* input values are.
C13_StoredValuesInUnitRange ==
    /\ \A r \in segment_risks :
           /\ r.risk_score \in UnitRange
           /\ r.current_density \in UnitRange
           /\ r.expected_2h \in UnitRange
    /\ \A f \in traffic_forecasts :
           /\ f.traffic_density \in UnitRange
           /\ f.expected_2h \in UnitRange

C13_Witness ==
    /\ \E r \in segment_risks : r.risk_score = 15
    /\ \E f \in traffic_forecasts : f.traffic_density = 15 /\ f.expected_2h = -5

\* C14: every stored risk snapshot has risk_level high when risk_score >= 0.7,
\* medium when 0.4 <= risk_score < 0.7 and low otherwise.
C14_RiskLevelOfScore ==
    \A r \in segment_risks :
        /\ (r.risk_score >= 7) => (r.risk_level = "high")
        /\ (4 <= r.risk_score /\ r.risk_score < 7) => (r.risk_level = "medium")
        /\ (r.risk_score < 4) => (r.risk_level = "low")

C14_Witness ==
    \E r \in segment_risks : r.risk_score = 4 /\ r.risk_level = "medium"

\* the samples at or after a cutoff that carry the requested segment and signal
MatchingSamples(segment_id, signal_id, cutoff) ==
    {f \in traffic_forecasts :
         /\ f.timestamp >= cutoff
         /\ (segment_id # None) => (f.segment_id = segment_id)
         /\ (signal_id # None) => (f.signal_id = signal_id)}

\* C15: get_traffic_forecast returns a non-empty list whenever a sample
\* matching the segment/signal filter exists in the last 7 days, even when none
\* exists in the requested window; when samples exist in the requested window,
\* only samples of that window are returned, newest first.
C15_ForecastWidensLookback ==
    (last.op = "get_forecast") =>
        /\ (MatchingSamples(last.segment_id, last.signal_id, last.at - HoursPerWeek) # {})
               => (last.out # <<>>)
        /\ (MatchingSamples(last.segment_id, last.signal_id, last.at - last.hours) # {})
               => /\ \A i \in DOMAIN last.out :
                         last.out[i].timestamp >= last.at - last.hours
                  /\ \A i, j \in DOMAIN last.out :
                         (i < j) => (last.out[i].timestamp >= last.out[j].timestamp)

C15_Witness ==
    /\ last.op = "get_forecast"
    /\ last.signal_id = 1
    /\ MatchingSamples(last.segment_id, last.signal_id, last.at - last.hours) = {}
    /\ Len(last.out) = 2
    /\ last.out[1].timestamp > last.out[2].timestamp
    /\ last.out[1].timestamp < last.at - last.hours

\* C16: each successful what-if request inserts exactly one new ScenarioRun
\* row and no operation modifies or deletes an existing row: a request for a
\* target with risk history of the last 24 hours succeeds, and afterwards the
\* store holds the rows it held before, unchanged, followed by one new row.
C16_RequestAppendsOneRow ==
    /\ (last.op = "create_whatif"
            /\ RecentRisks(segment_risks, last.request.segment_id, now) # <<>>) =>
           /\ last.status = 200
           /\ Len(whatif_scenarios) = Len(last.stored_before) + 1
           /\ SubSeq(whatif_scenarios, 1, Len(last.stored_before)) = last.stored_before
    /\ (last.op = "list_whatif") => (whatif_scenarios = last.stored_before)

C16_Witness ==
    /\ last.op = "create_whatif"
    /\ RecentRisks(segment_risks, last.request.segment_id, now) # <<>>
    /\ last.request.lane_closed = 1
    /\ last.request.duration_hours = 4
    /\ last.status = 500
    /\ last.body = "AttributeError"
    /\ whatif_scenarios = last.stored_before

NoDuplicates(seq) == \A i, j \in 1 .. Len(seq) : seq[i] = seq[j] => i = j

RECURSIVE EdgeCount(_, _)
EdgeCount(sn, keys) ==
    IF keys = {} THEN 0
    ELSE LET k == CHOOSE x \in keys : TRUE
         IN  Len(sn[k]) + EdgeCount(sn, keys \ {k})

\* C17: on every finite adjacency map, cycles and self-loops included, both
\* searches end: _find_affected_segments appends each segment to its queue at
\* most once and pops exactly what it appended, and _get_hop_distance pops at
\* most one entry per edge of the map besides the start
C17_SearchesTerminate ==
    last.op = "graph_search" =>
        /\ NoDuplicates(last.bfs.enqueued)
        /\ last.bfs.pops = Len(last.bfs.enqueued)
        /\ Elements(last.bfs.enqueued) = last.bfs.affected
        /\ last.hop.pops <= 1 + EdgeCount(last.neighbors, DOMAIN last.neighbors)

C17_Witness ==
    /\ last.op = "graph_search"
    /\ last.seg1 \in Elements(DictGet(last.neighbors, last.seg1))
    /\ last.max_hops >= 2
    /\ Cardinality(last.bfs.affected) = 2
    /\ last.hop.hops = UnreachableHops

\* the segments one edge away from a segment of S
Successors(sn, S) == UNION {Elements(DictGet(sn, x)) : x \in S}

RECURSIVE LevelDistance(_, _, _, _)
\* the least n such that b is at most n edges away from the segments the search
\* started with, None when no path leads to b
LevelDistance(sn, seen, b, n) ==
    IF b \in seen THEN n
    ELSE IF Successors(sn, seen) \subseteq seen THEN None
    ELSE LevelDistance(sn, seen \cup Successors(sn, seen), b, n + 1)

ShortestDistance(sn, a, b) == LevelDistance(sn, {a}, b, 0)

\* C18: _get_hop_distance(a, b) is 0 when a = b, the number of edges of a
\* shortest path when b is reachable from a, and the sentinel 10 when it is not;
\* the sentinel is larger than every distance returned for a reachable pair
C18_SentinelAboveEveryDistance ==
    last.op = "graph_search" =>
        LET d == ShortestDistance(last.neighbors, last.seg1, last.seg2)
        IN  /\ last.seg1 = last.seg2 => last.hop.hops = 0
            /\ d # None => last.hop.hops = d /\ last.hop.hops < UnreachableHops
            /\ d = None => last.hop.hops = UnreachableHops

\* C18, the part the code keeps: the value is the shortest distance, or the
\* sentinel for an unreachable segment
C18_ShortestOrSentinel ==
    last.op = "graph_search" =>
        LET d == ShortestDistance(last.neighbors, last.seg1, last.seg2)
        IN  last.hop.hops = IF d = None THEN UnreachableHops ELSE d

C18_Witness ==
    /\ last.op = "graph_search"
    /\ ShortestDistance(last.neighbors, last.seg1, last.seg2) # None
    /\ last.hop.hops > UnreachableHops

\* the segments the scenario of type t finds affected for the request last run,
\* on the same service and snapshots
AffectedBy(t) ==
    Elements(run_scenario(service, [last.request EXCEPT !.scenario_type = t],
                          last.df, hash_seed, sort_tie).affected)

\* C19: for one target segment, graph and max_hops the affected sets are nested
\* by reach: accident within road_work within pipe_burst within event within
\* weather
C19_AffectedSetsNested ==
    (last.op = "run_scenario" /\ last.request.scenario_type \in ScenarioNames) =>
        /\ AffectedBy("accident") \subseteq AffectedBy("road_work")
        /\ AffectedBy("road_work") \subseteq AffectedBy("pipe_burst")
        /\ AffectedBy("pipe_burst") \subseteq AffectedBy("event")
        /\ AffectedBy("event") \subseteq AffectedBy("weather")

C19_Witness ==
    /\ last.op = "run_scenario"
    /\ last.request.scenario_type = "accident"
    /\ Elements(last.affected) = AffectedBy("accident")
    /\ AffectedBy("accident") # AffectedBy("road_work")
    /\ AffectedBy("road_work") # AffectedBy("pipe_burst")
    /\ AffectedBy("pipe_burst") # AffectedBy("event")
    /\ AffectedBy("event") # AffectedBy("weather")

\* the rows of a segment among the snapshot rows handed over
SnapshotsOf(risks, seg) == {r \in Elements(risks) : r.segment_id = seg}

Latest(rows) == {r \in rows : \A q \in rows : q.timestamp <= r.timestamp}

\* C20: the baseline density is the current_density of the target's snapshot
\* with the latest timestamp, whatever the order of the rows, and 0.5 when the
\* target has no rows
C20_BaselineIsLatestCurrentDensity ==
    last.op = "current_density" =>
        LET mine == SnapshotsOf(last.risks, last.segment_id)
        IN  IF mine = {} THEN last.out = DefaultDensity
            ELSE \E r \in Latest(mine) : last.out = r.current_density

\* C20, what the code returns: the risk_score of that snapshot
C20_BaselineIsLatestRiskScore ==
    last.op = "current_density" =>
        LET mine == SnapshotsOf(last.risks, last.segment_id)
        IN  IF mine = {} THEN last.out = DefaultDensity
            ELSE \E r \in Latest(mine) : last.out = r.risk_score

C20_Witness ==
    /\ last.op = "current_density"
    /\ Len(last.risks) = MaxSnapshots
    /\ last.risks[1] \in Latest(SnapshotsOf(last.risks, last.segment_id))
    /\ \E i \in DOMAIN last.risks : last.risks[i].timestamp < last.risks[1].timestamp
    /\ last.out = last.risks[1].risk_score
    /\ last.out # last.risks[1].current_density

\* C21: the impact computed for a segment at hop >= 1 stays within the cap of
\* the scenario, after the urgency bonus or duration multiplier: at most 80 in a
\* pipe burst and at most 50 in an accident
C21_IndirectWithinScenarioCap ==
    (last.op = "scenario_delay" /\ last.hops >= 1) =>
        /\ last.pipe_burst.ok /\ last.pipe_burst.val <= 80
        /\ last.accident.ok /\ last.accident.val <= AccidentCap

C21_Witness ==
    /\ last.op = "scenario_delay"
    /\ last.hops = 1
    /\ last.pipe_burst.ok /\ last.pipe_burst.val = (IndirectCap * 3) \div 2
    /\ last.accident.ok /\ last.accident.val > 0

\* C22: in model-assisted refinement the before rows carry the unperturbed
\* density and the after rows the perturbed density in the traffic_density
\* feature the model reads, so the feature rows differ whenever the densities do
C22_ModelReadsPerturbedDensity ==
    (last.op = "prepare_features" /\ last.out.ok
     /\ last.current_density # last.scenario_density) =>
        /\ \A i \in DOMAIN last.out.before :
               /\ last.out.before[i].traffic_density = last.current_density
               /\ last.out.after[i].traffic_density = last.scenario_density
        /\ last.before_features # last.after_features

\* C22, what the code keeps: the frames handed to predict() carry the two
\* densities in their traffic_density column
C22_FramesCarryDensities ==
    (last.op = "prepare_features" /\ last.out.ok) =>
        \A i \in DOMAIN last.out.before :
            /\ last.out.before[i].traffic_density = last.current_density
            /\ last.out.after[i].traffic_density = last.scenario_density

C22_Witness ==
    /\ last.op = "prepare_features"
    /\ last.out.ok
    /\ last.current_density > 0
    /\ last.scenario_density > last.current_density
    /\ last.before_features = last.after_features

\* C23, the part about construction: use_model is true exactly when a model
\* handle is loaded, so a missing or broken artifact leaves the forecaster off
C23_ModelFlagImpliesHandle == service.use_model <=> service.traffic_model # "None"

\* C23: without a model artifact the simulator is built with use_model false,
\* use_model true implies a loaded handle, and a road_work scenario computes
\* the impact of every affected segment with the direct/indirect formulas
C23_NoModelFallsBackToFormulas ==
    /\ C23_ModelFlagImpliesHandle
    /\ (/\ last.op = "run_scenario"
        /\ last.request.scenario_type = "road_work"
        /\ ~service.use_model) =>
           /\ last.out.ok
           /\ Len(last.out.val.affected_segments) = Len(last.affected)
           /\ \A i \in DOMAIN last.affected :
                  LET e == last.out.val.affected_segments[i]
                      f == _calculate_indirect_impact(service, last.affected[i],
                               last.request.segment_id,
                               _get_current_density(last.df, last.request.segment_id),
                               last.request.lane_closed)
                  IN  /\ e.segment_id = last.affected[i]
                      /\ last.affected[i] # last.request.segment_id
                             => e.delay_increase_pct = VTrunc(f.val)

C23_Witness ==
    /\ last.op = "run_scenario"
    /\ last.request.scenario_type = "road_work"
    /\ last.request.lane_closed = 3
    /\ ~service.use_model
    /\ service.traffic_model = "None"
    /\ Len(last.affected) > 1
    /\ ~last.out.ok

\* the rows of one signal in a partition
OfSignal(rows, sid) == {r \in rows : r.signal_id = sid}

\* C24, the part about the partitions: per signal the training rows are the
\* first floor(n * train_split) rows in time order, all earlier than every
\* validation row, and the two partitions are disjoint and hold every row that
\* has a target
C24_SplitByTime ==
    last.op = "train" =>
        \A sid \in SignalsOf(last.traffic_full) :
            LET tr == OfSignal(last.out.tr, sid)
                va == OfSignal(last.out.va, sid)
                n == Cardinality(TimesOf(last.traffic_full, sid))
                m == IF n > HORIZON THEN n - HORIZON ELSE 0
            IN  /\ \A a \in tr, b \in va : a.timestamp < b.timestamp
                /\ tr \cap va = {}
                /\ Cardinality(tr \cup va) = m
                /\ Cardinality(tr) = (m * last.train_split) \div 100
                /\ \A r \in tr \cup va : r.timestamp \in TimesOf(last.traffic_full, sid)

\* C24: the above, and no target of a training row is read from a time step
\* of the validation partition
C24_NoTargetFromValidation ==
    /\ C24_SplitByTime
    /\ last.op = "train" =>
           \A a \in last.out.tr, b \in last.out.va :
               a.signal_id = b.signal_id => a.target_from # b.timestamp

C24_Witness ==
    /\ last.op = "train"
    /\ last.train_split = 80
    /\ \E a \in last.out.tr, b \in last.out.va :
           /\ a.signal_id = b.signal_id
           /\ a.timestamp < b.timestamp
           /\ a.target_from = b.timestamp

\* C25: a thread searching the graph while another populates it sees the
\* complete old map or the complete new one, never a partly filled map
C25_GraphNeverHalfBuilt ==
    \A t \in Threads :
        threads[t].pc = "bfs" => DOMAIN service.segment_neighbors \in {{}, NSB}

C25_Witness ==
    \E t, u \in Threads :
        /\ threads[u].pc = "init"
        /\ threads[t].pc = "done"
        /\ threads[t].affected #
               AffectedSet(_init_default_neighbors(EmptyDict), threads[t].segment_id,
                           threads[t].max_hops)

\* the entries an event scenario returns for the request last run with another
\* attendance
EventEntries(attendance) ==
    run_scenario(service, [last.request EXCEPT !.event_attendance = attendance],
                 last.df, hash_seed, sort_tie).out.val.affected_segments

HopsOf(seg) == _get_hop_distance(last.neighbors, last.request.segment_id, seg)

\* the properties of C26 for the event scenario last run
EventImpactShape ==
    LET es == last.out.val.affected_segments
    IN  /\ \A i \in DOMAIN es : es[i].delay_increase_pct <= 80
        /\ \A i, j \in DOMAIN es :
               /\ es[i].segment_id = last.request.segment_id
                      => es[i].delay_increase_pct >= es[j].delay_increase_pct
               /\ HopsOf(es[i].segment_id) <= HopsOf(es[j].segment_id)
                      => es[i].delay_increase_pct >= es[j].delay_increase_pct
        /\ \A a \in Attendances \cup {EventAttendanceSaturation} :
               LET more == EventEntries(a)
               IN  /\ a >= last.request.event_attendance =>
                          \A i \in DOMAIN es :
                              more[i].delay_increase_pct >= es[i].delay_increase_pct
                   /\ (/\ a >= EventAttendanceSaturation
                       /\ last.request.event_attendance >= EventAttendanceSaturation)
                          => more = es

\* C26: in an event scenario the impact is non-decreasing in event_attendance
\* and the same for every attendance above 5000, largest at the target,
\* non-increasing in the hop distance from the target, and never above 80
C26_EventImpactShape ==
    (last.op = "run_scenario" /\ last.request.scenario_type = "event") =>
        last.out.ok /\ EventImpactShape

\* C26 for the attendances a validated request could carry
C26_EventImpactShapeFromZero ==
    (/\ last.op = "run_scenario"
     /\ last.request.scenario_type = "event"
     /\ last.request.event_attendance >= 0) =>
        last.out.ok /\ EventImpactShape

C26_Witness ==
    /\ last.op = "run_scenario"
    /\ last.request.scenario_type = "event"
    /\ last.request.event_attendance < 0
    /\ last.out.ok
    /\ \E i, j \in DOMAIN last.out.val.affected_segments :
           LET es == last.out.val.affected_segments
           IN  /\ es[i].segment_id = last.request.segment_id
               /\ es[i].delay_increase_pct < es[j].delay_increase_pct

RECURSIVE ReachWithin(_, _, _)
\* the segments a path of at most n edges leads to from a segment of S
ReachWithin(sn, S, n) ==
    IF n = 0 THEN S ELSE ReachWithin(sn, S \cup Successors(sn, S), n - 1)

\* the segments at most n edges from x
WithinHops(sn, x, n) == ReachWithin(sn, {x}, n)

\* C27: for N >= 0 _find_affected_segments(x, N) is exactly the set of segments
\* whose shortest-path distance from x is at most N, and every returned segment
\* s has _get_hop_distance(x, s) <= N
C27_AffectedAreThoseWithinHops ==
    (last.op = "graph_search" /\ last.max_hops >= 0) =>
        /\ last.bfs.affected = WithinHops(last.neighbors, last.seg1, last.max_hops)
        /\ \A y \in last.bfs.affected :
               _get_hop_distance(last.neighbors, last.seg1, y) <= last.max_hops

C27_Witness ==
    /\ last.op = "graph_search"
    /\ last.max_hops = 1
    /\ Cardinality(last.bfs.affected) = 2
    /\ \E y \in DOMAIN last.neighbors :
           /\ y \in WithinHops(last.neighbors, last.seg1, 2)
           /\ last.seg1 \in Elements(last.neighbors[y])
           /\ y \notin last.bfs.affected

\* the frame rows of a set of snapshots
FrameRows(risks) == {Row(r.segment_id, r.timestamp, r.risk_score) : r \in risks}

\* C28 as far as the code goes: the endpoint uses exactly the target's snapshots
\* not older than 24 hours; without one the answer is NotFound, and nothing
\* older is in the frame handed to the simulator, from which the baseline
\* density and the time window are read
C28_UsesSnapshotsNotOlderThanDay ==
    last.op = "create_whatif" =>
        LET recent == {r \in last.history : r.timestamp >= now - LookbackHours}
        IN  /\ (recent = {}) <=> (last.status = 404)
            /\ RowSet(last.df) = FrameRows(recent)
            /\ Len(last.df) = Cardinality(recent)

\* C28: the endpoint uses only the target's snapshots of the 24 hours before
\* the request; a target with older snapshots only is answered NotFound, and no
\* older snapshot reaches the baseline density or the time window
C28_UsesSnapshotsOfLastDay ==
    last.op = "create_whatif" =>
        LET recent == {r \in last.history :
                           r.timestamp >= now - LookbackHours /\ r.timestamp <= now}
        IN  /\ (last.history # {} /\ recent = {}) => last.status = 404
            /\ RowSet(last.df) \subseteq FrameRows(recent)

C28_Witness ==
    /\ last.op = "create_whatif"
    /\ last.status # 404
    /\ \E r \in last.history : r.timestamp < now - LookbackHours
    /\ \E r \in last.history : r.timestamp = now - LookbackHours
    /\ Len(last.df) = 1

C28_WitnessAhead ==
    /\ last.op = "create_whatif"
    /\ \E i \in DOMAIN last.df : last.df[i].timestamp > now

\* the window C29 expects of the scenario last run
ExpectedWindow ==
    IF last.request.scenario_type \in {"accident", "weather"}
    THEN [start |-> HHMM(0, 0), end |-> HHMM(23, 59)]
    ELSE _find_best_time_window(last.df, last.request.segment_id,
                                last.request.duration_hours, sort_tie)

\* C29: accident and weather scenarios always return the window 00:00-23:59,
\* whatever the history and duration_hours; road_work, pipe_burst and event
\* scenarios return the window _find_best_time_window computes
C29_WindowByScenarioType ==
    (last.op = "run_scenario" /\ last.request.scenario_type \in ScenarioNames) =>
        /\ last.out.ok
        /\ last.out.val.best_time_window = ExpectedWindow

\* C29 for the scenarios that return a result
C29_WindowOfReturnedResult ==
    (last.op = "run_scenario" /\ last.out.ok) =>
        /\ last.request.scenario_type \in {"event", "weather"}
        /\ last.out.val.best_time_window = ExpectedWindow

C29_Witness ==
    /\ last.op = "run_scenario"
    /\ last.request.scenario_type = "accident"
    /\ SelectRows(last.df, last.request.segment_id) # <<>>
    /\ ~last.out.ok
    /\ last.out.err = "AttributeError"

\* the stored row carries the response's affected_segments, window and summary
RowMatchesResponse(row, body) ==
    /\ row.affected_segments = body.affected_segments
    /\ row.best_time_window = body.best_time_window
    /\ row.summary = body.summary

C30_NoRowUnlessComputed ==
    last.op = "create_whatif" =>
        /\ (last.status # 200) => (whatif_scenarios = last.stored_before)
        /\ (last.status = 200) =>
               /\ Len(whatif_scenarios) = Len(last.stored_before) + 1
               /\ RowMatchesResponse(whatif_scenarios[Len(whatif_scenarios)], last.body)

====
